---- MODULE Spec2Model ----
(***************************************************************************)
(* The callback registry of package callback (Registry and its methods):   *)
(* pending single callbacks, pending batch groups, the two bounded         *)
(* histories, the persisted JSON record, and the outbound call / email     *)
(* dispatch performed by OnAgentComplete.                                  *)
(*                                                                         *)
(* Conventions.  A Go string is a TLA+ string.  A time.Time is an integer  *)
(* reading of the clock, 0 being the zero time.  A group id "grp-<nanos>"  *)
(* is the integer <nanos>, the empty group id "" being 0.  A callback id   *)
(* "cb-<agent>-<nanos>" is the pair <<agent, nanos>>.  A Go map is a       *)
(* function whose domain is the set of keys present.  An error is its      *)
(* message, "" being nil.                                                  *)
(***************************************************************************)
EXTENDS Integers, Sequences, FiniteSets, TLC

\* Register and RegisterBatch succeed only while the clock is below the bound of
\* the specification: MaxClockDeep for SpecDeep (two registrations), MaxClock
\* for the others (the first registration and all that can follow it).  Each
\* registration and each dispatch advances the clock by one.
MaxClock == 2
MaxClockDeep == 3
\* the goroutines that call OnAgentComplete concurrently in SpecConc
MaxThreads == 2
\* the number of server processes started in the process-manager specification
MaxStarts == 3
\* the longest phone number of the log-masking specification
MaxPhoneLen == 9
\* the longest task summary, in characters, of the email-subject specification
MaxSummaryLen == 40
\* the longest subject buildSubject leaves alone, and what it cuts a longer one to
SubjectCap == 50
SubjectCut == 47
Threads == 1..MaxThreads

\* len(r.history) > 100 and len(r.groupHistory) > 50 in the source.
HistoryCap == 100
GroupHistoryCap == 50

Agents == {"a1", "a2", "a3"}
Methods == {"call", "email", "both", "sms"}
Phone == "+15551234567"
Email == "x@y.com"
Phones == {"", Phone}
Emails == {"", Email}
Contacts == Phones \X Emails
\* member lists handed to RegisterBatch: distinct members, none, and a repeat
BatchLists == {<<"a1", "a2">>, <<>>, <<"a2", "a2">>}
WideLists == {<<"a1", "a2", "a3">>, <<"a2", "a2">>}
\* what the call and the email provider answer: "" is success
CallErrors == {"", "vapi: status 500"}
EmailErrors == {"", "smtp: timeout"}

VARIABLES
    callbacks,      \* r.callbacks: agentID -> Callback
    groups,         \* r.groups: groupID -> CallbackGroup
    history,        \* r.history
    groupHistory,   \* r.groupHistory
    vapiClient,     \* r.vapiClient != nil && r.vapiClient.IsConfigured()
    emailClient,    \* r.emailClient != nil && r.emailClient.IsConfigured()
    disk,           \* what the file system does with a write of callbacks.json
    processChannels, \* pt.processChannels: process id -> ChannelContext
    ptCallbacks,    \* pt.callbacks: process id -> CallbackConfig
    slackClient,    \* pt.slackClient != nil
    smtpHost,       \* os.Getenv("SMTP_HOST") != ""
    processes,      \* pm.processes: project name -> the ServerProcess registered for it
    allocations,    \* the subdomain registry: project name -> the server it was allocated for
    servers,        \* every ServerProcess started: its fields, its OS process, its monitor
    file,           \* tron.work/callbacks.json
    clock,          \* time.Now()
    last,           \* the operation just performed: its arguments, result and outbound I/O
    cancelled,      \* history variable: the ids of the callbacks Cancel has removed
    retired,        \* history variable: the << id, status >> of the callbacks r.history has held
    mu,             \* r.mu: the goroutine holding the exclusive lock, 0 when free
    threads         \* the goroutines inside OnAgentComplete: position and locals

regvars == <<callbacks, groups, history, groupHistory, retired>>
toolvars == <<processChannels, ptCallbacks, slackClient, smtpHost>>
pmvars == <<processes, allocations, servers>>
envvars == <<vapiClient, emailClient, disk, toolvars, pmvars>>
concvars == <<mu, threads>>
vars == <<callbacks, groups, history, groupHistory, vapiClient, emailClient, disk,
          processChannels, ptCallbacks, slackClient, smtpHost,
          processes, allocations, servers,
          file, clock, last, cancelled, retired, mu, threads>>

----------------------------------------------------------------------------
(* Go maps *)

EmptyMap == << >>
Put(m, k, v) == [x \in (DOMAIN m) \cup {k} |-> IF x = k THEN v ELSE m[x]]
Del(m, k) == [x \in (DOMAIN m) \ {k} |-> m[x]]

\* The registry as one value, for the operators that transform it.
Reg(cbs, grps, hist, ghist) ==
    [callbacks |-> cbs, groups |-> grps, history |-> hist, groupHistory |-> ghist]
EmptyRegistry == Reg(EmptyMap, EmptyMap, << >>, << >>)
Cur == Reg(callbacks, groups, history, groupHistory)

CanCall == vapiClient
CanEmail == emailClient

----------------------------------------------------------------------------
(* Callback, CallbackGroup, CompletionInfo *)

NewCallback(agentID, method, phone, emailAddr, groupID, now) ==
    [ID |-> <<agentID, now>>, AgentID |-> agentID, Method |-> method,
     CustomerPhone |-> phone, CustomerEmail |-> emailAddr,
     RequestedAt |-> now, CompletedAt |-> 0,
     Status |-> "pending", Error |-> "", GroupID |-> groupID]

NewGroup(groupID, agentIDs, method, phone, emailAddr, now) ==
    [ID |-> groupID, AgentIDs |-> agentIDs, Results |-> EmptyMap, Method |-> method,
     CustomerPhone |-> phone, CustomerEmail |-> emailAddr,
     RequestedAt |-> now, CompletedAt |-> 0,
     Status |-> "pending", Error |-> ""]

\* the completion events the orchestrator delivers for an agent: a1 may fail
Infos(agentID) ==
    {[AgentID |-> agentID, Result |-> "done", ProjectName |-> "", Error |-> e] :
        e \in IF agentID = "a1" THEN {"", "exit status 1"} ELSE {""}}

----------------------------------------------------------------------------
(* Outbound I/O.  An event of the I/O log of one operation: a placed call, *)
(* a sent single email, or a sent batch email with the results it carries, *)
(* and the error the provider answered ("" for none).                      *)

IO(kind, to, agentID, results, answer) ==
    [kind |-> kind, to |-> to, agent |-> agentID, results |-> results,
     answer |-> answer]

\* executeCall: callErr is what vapiClient.Call returns
executeCall(cb, info, callErr) ==
    IF ~CanCall
    THEN [err |-> "VAPI client not configured", io |-> << >>]
    ELSE [err |-> callErr, io |-> << IO("call", cb.CustomerPhone, cb.AgentID, EmptyMap, callErr) >>]

\* executeEmail: emailErr is what emailClient.SendTaskComplete returns
executeEmail(cb, info, emailErr) ==
    IF ~CanEmail
    THEN [err |-> "email client not configured", io |-> << >>]
    ELSE [err |-> emailErr, io |-> << IO("email", cb.CustomerEmail, cb.AgentID, EmptyMap, emailErr) >>]

executeBatchCall(group) ==
    [err |-> "batch calls not yet implemented", io |-> << >>]

\* executeBatchEmail: emailErr is what emailClient.SendBatchComplete returns
executeBatchEmail(group, emailErr) ==
    IF ~CanEmail
    THEN [err |-> "email client not configured", io |-> << >>]
    ELSE [err |-> emailErr,
          io |-> << IO("batchEmail", group.CustomerEmail, "", group.Results, emailErr) >>]

\* a switch that gives up on the email once the call has failed
dispatchMethodShortCircuit(method, call, email) ==
    CASE method = "call" -> call
      [] method = "email" -> email
      [] method = "both" -> IF call.err # "" THEN call
                            ELSE [err |-> email.err, io |-> call.io \o email.io]
      [] OTHER -> [err |-> "", io |-> << >>]

\* the switch on the method of executeCallback and of executeGroupCallback:
\* call and email are the two attempts (their error and their I/O)
dispatchMethod(method, call, email) ==
    CASE method = "call" -> call
      [] method = "email" -> email
      [] method = "both" ->
            [err |-> IF email.err # ""
                     THEN IF call.err # ""
                          THEN "call: " \o call.err \o "; email: " \o email.err
                          ELSE email.err
                     ELSE call.err,
             io |-> call.io \o email.io]
      [] OTHER -> [err |-> "", io |-> << >>]

appendHistory(hist, cb) ==
    LET h == Append(hist, cb)
    IN  IF Len(h) > HistoryCap THEN Tail(h) ELSE h

\* a dispatch that forgets delete(r.callbacks, cb.AgentID)
executeCallbackKeepsPending(r, cb, info, callErr, emailErr, now) ==
    LET d == dispatchMethod(cb.Method, executeCall(cb, info, callErr),
                            executeEmail(cb, info, emailErr))
        done == [cb EXCEPT !.CompletedAt = now,
                           !.Status = IF d.err # "" THEN "failed" ELSE "completed",
                           !.Error = IF d.err # "" THEN d.err ELSE @]
    IN  [reg |-> [r EXCEPT !.history = appendHistory(r.history, done)],
         io |-> d.io]

executeCallback(r, cb, info, callErr, emailErr, now) ==
    LET d == dispatchMethod(cb.Method, executeCall(cb, info, callErr),
                            executeEmail(cb, info, emailErr))
        done == [cb EXCEPT !.CompletedAt = now,
                           !.Status = IF d.err # "" THEN "failed" ELSE "completed",
                           !.Error = IF d.err # "" THEN d.err ELSE @]
    IN  [reg |-> [r EXCEPT !.callbacks = Del(r.callbacks, cb.AgentID),
                           !.history = appendHistory(r.history, done)],
         io |-> d.io]

\* the loop over group.AgentIDs of executeGroupCallback, from index i on
RECURSIVE cleanUpMembers(_, _, _)
cleanUpMembers(r, group, i) ==
    IF i > Len(group.AgentIDs) THEN r
    ELSE LET agentID == group.AgentIDs[i]
         IN  IF agentID \in DOMAIN r.callbacks
             THEN cleanUpMembers(
                    [r EXCEPT !.history = Append(r.history,
                                  [r.callbacks[agentID] EXCEPT
                                      !.Status = group.Status,
                                      !.CompletedAt = group.CompletedAt]),
                              !.callbacks = Del(r.callbacks, agentID)],
                    group, i + 1)
             ELSE cleanUpMembers(r, group, i + 1)

lastN(s, n) == IF Len(s) > n THEN SubSeq(s, Len(s) - n + 1, Len(s)) ELSE s

\* a group dispatch that leaves the members of the group pending
executeGroupCallbackNoCleanup(r, group, emailErr, now) ==
    LET d == dispatchMethod(group.Method, executeBatchCall(group),
                            executeBatchEmail(group, emailErr))
        done == [group EXCEPT !.CompletedAt = now,
                              !.Status = IF d.err # "" THEN "failed" ELSE "completed",
                              !.Error = IF d.err # "" THEN d.err ELSE @]
        gh == Append(r.groupHistory, done)
    IN  [reg |-> [r EXCEPT !.groups = Del(r.groups, group.ID),
                           !.groupHistory =
                               IF Len(gh) > GroupHistoryCap THEN Tail(gh) ELSE gh],
         io |-> d.io]

executeGroupCallback(r, group, emailErr, now) ==
    LET d == dispatchMethod(group.Method, executeBatchCall(group),
                            executeBatchEmail(group, emailErr))
        done == [group EXCEPT !.CompletedAt = now,
                              !.Status = IF d.err # "" THEN "failed" ELSE "completed",
                              !.Error = IF d.err # "" THEN d.err ELSE @]
        r1 == cleanUpMembers(r, done, 1)
        gh == Append(r1.groupHistory, done)
    IN  [reg |-> [r1 EXCEPT !.history = lastN(r1.history, HistoryCap),
                            !.groups = Del(r1.groups, group.ID),
                            !.groupHistory =
                                IF Len(gh) > GroupHistoryCap THEN Tail(gh) ELSE gh],
         io |-> d.io]

----------------------------------------------------------------------------
(* Persistence.  A JSON object is a function from its keys to its values;  *)
(* a field tagged omitempty is left out when it is the empty string; a     *)
(* key missing on decoding leaves the Go zero value.                       *)

OmitEmpty(obj, keys) == [k \in (DOMAIN obj) \ {x \in keys : obj[x] = ""} |-> obj[k]]
Field(obj, k, zero) == IF k \in DOMAIN obj THEN obj[k] ELSE zero

\* json.Marshal of a Callback (struct tags of Callback); GroupID 0 stands for ""
marshalCallback(cb) ==
    LET obj == OmitEmpty(
                 [id |-> cb.ID, agent_id |-> cb.AgentID, method |-> cb.Method,
                  customer_phone |-> cb.CustomerPhone, customer_email |-> cb.CustomerEmail,
                  requested_at |-> cb.RequestedAt, completed_at |-> cb.CompletedAt,
                  status |-> cb.Status, error |-> cb.Error],
                 {"customer_phone", "customer_email", "error"})
    IN  IF cb.GroupID = 0 THEN obj
        ELSE [k \in (DOMAIN obj) \cup {"group_id"} |->
                 IF k = "group_id" THEN cb.GroupID ELSE obj[k]]

unmarshalCallback(obj) ==
    [ID |-> obj.id, AgentID |-> obj.agent_id, Method |-> obj.method,
     CustomerPhone |-> Field(obj, "customer_phone", ""),
     CustomerEmail |-> Field(obj, "customer_email", ""),
     RequestedAt |-> obj.requested_at, CompletedAt |-> obj.completed_at,
     Status |-> obj.status, Error |-> Field(obj, "error", ""),
     GroupID |-> Field(obj, "group_id", 0)]

\* json.Marshal of a CompletionInfo
marshalInfo(info) ==
    OmitEmpty([agent_id |-> info.AgentID, result |-> info.Result,
               project_name |-> info.ProjectName, error |-> info.Error],
              {"error"})

\* a decoding that loses the error of a completion info
unmarshalInfoDropsError(obj) ==
    [AgentID |-> obj.agent_id, Result |-> obj.result,
     ProjectName |-> obj.project_name, Error |-> ""]

unmarshalInfo(obj) ==
    [AgentID |-> obj.agent_id, Result |-> obj.result,
     ProjectName |-> obj.project_name, Error |-> Field(obj, "error", "")]

\* json.Marshal of a CallbackGroup (struct tags of CallbackGroup)
marshalGroup(g) ==
    OmitEmpty(
      [id |-> g.ID, agent_ids |-> g.AgentIDs,
       results |-> [a \in DOMAIN g.Results |-> marshalInfo(g.Results[a])],
       method |-> g.Method,
       customer_phone |-> g.CustomerPhone, customer_email |-> g.CustomerEmail,
       requested_at |-> g.RequestedAt, completed_at |-> g.CompletedAt,
       status |-> g.Status, error |-> g.Error],
      {"customer_phone", "customer_email", "error"})

unmarshalGroup(obj) ==
    [ID |-> obj.id, AgentIDs |-> obj.agent_ids,
     Results |-> [a \in DOMAIN obj.results |-> unmarshalInfo(obj.results[a])],
     Method |-> obj.method,
     CustomerPhone |-> Field(obj, "customer_phone", ""),
     CustomerEmail |-> Field(obj, "customer_email", ""),
     RequestedAt |-> obj.requested_at, CompletedAt |-> obj.completed_at,
     Status |-> obj.status, Error |-> Field(obj, "error", "")]

\* The file tron.work/callbacks.json: absent, unreadable (os.ReadFile fails
\* otherwise than with "not exist"), not valid JSON, or a document.
NoFile == << "absent" >>
UnreadableFile == << "unreadable" >>
CorruptFile == << "corrupt" >>
JSONFile(doc) == << "json", doc >>

\* persist: the document os.WriteFile leaves in the file
persist(r) ==
    JSONFile(
      [callbacks |-> [a \in DOMAIN r.callbacks |-> marshalCallback(r.callbacks[a])],
       groups |-> [g \in DOMAIN r.groups |-> marshalGroup(r.groups[g])],
       history |-> [i \in 1..Len(r.history) |-> marshalCallback(r.history[i])],
       group_history |->
           [i \in 1..Len(r.groupHistory) |-> marshalGroup(r.groupHistory[i])]])

\* What a write leaves in the file.  "ok": the write succeeds.  "denied":
\* os.MkdirAll or the opening of the file fails and the file is as it was.
\* "full": os.WriteFile has truncated the file and fails to write the whole
\* document.  persist() logs the failure and returns nothing.
Disks == {"ok", "denied", "full"}
writeFile(f, r, d) ==
    CASE d = "ok" -> persist(r)
      [] d = "denied" -> f
      [] d = "full" -> CorruptFile

\* a load that turns to the record of an earlier run when it cannot use the file
loadFallsBack(r, f) ==
    LET data == IF f[1] = "json" THEN f[2] ELSE
                   [callbacks |-> EmptyMap, groups |-> EmptyMap,
                    history |-> << marshalCallback(
                                     [NewCallback("a0", "email", "", Email, 0, 0)
                                         EXCEPT !.Status = "completed"]) >>,
                    group_history |-> << >>]
    IN  Reg([a \in DOMAIN data.callbacks |-> unmarshalCallback(data.callbacks[a])],
            [g \in DOMAIN data.groups |-> unmarshalGroup(data.groups[g])],
            [i \in 1..Len(data.history) |-> unmarshalCallback(data.history[i])],
            [i \in 1..Len(data.group_history) |->
                unmarshalGroup(data.group_history[i])])

\* load: the registry r after reading file f
load(r, f) ==
    IF f[1] # "json" THEN r
    ELSE LET data == f[2]
         IN  Reg([a \in DOMAIN data.callbacks |-> unmarshalCallback(data.callbacks[a])],
                 [g \in DOMAIN data.groups |-> unmarshalGroup(data.groups[g])],
                 [i \in 1..Len(data.history) |-> unmarshalCallback(data.history[i])],
                 [i \in 1..Len(data.group_history) |->
                     unmarshalGroup(data.group_history[i])])

\* NewRegistry: the maps and slices it makes, then load()
NewRegistry(f) == load(EmptyRegistry, f)

----------------------------------------------------------------------------
(* The operations of the registry, as transformations of the registry.    *)

\* a validation that does not ask whether the clients are configured
RegisterErrorNoConfig(method, phone, emailAddr) ==
    IF method \in {"call", "both"} /\ phone = ""
        THEN "phone number required for call callback"
    ELSE IF method \in {"email", "both"} /\ emailAddr = ""
        THEN "email address required for email callback"
    ELSE ""

\* "Validate method requirements" of Register: the error returned, "" for none
RegisterError(method, phone, emailAddr) ==
    IF method \in {"call", "both"} /\ phone = ""
        THEN "phone number required for call callback"
    ELSE IF method \in {"call", "both"} /\ ~CanCall
        THEN "VAPI not configured for call callbacks"
    ELSE IF method \in {"email", "both"} /\ emailAddr = ""
        THEN "email address required for email callback"
    ELSE IF method \in {"email", "both"} /\ ~CanEmail
        THEN "email not configured for email callbacks"
    ELSE ""

\* "Validate method requirements (same as single)" of RegisterBatch
RegisterBatchError(method, phone, emailAddr) ==
    IF method \in {"call", "both"} /\ phone = ""
        THEN "phone number required for call callback"
    ELSE IF method \in {"email", "both"} /\ emailAddr = ""
        THEN "email address required for email callback"
    ELSE ""

\* a Register that keeps the callback already pending for the agent
registerCallbackKeepsOld(r, agentID, method, phone, emailAddr, now) ==
    IF agentID \in DOMAIN r.callbacks THEN r
    ELSE [r EXCEPT !.callbacks =
            Put(r.callbacks, agentID, NewCallback(agentID, method, phone, emailAddr, 0, now))]

\* Register, past validation: r.callbacks[agentID] = cb
registerCallback(r, agentID, method, phone, emailAddr, now) ==
    [r EXCEPT !.callbacks =
        Put(r.callbacks, agentID, NewCallback(agentID, method, phone, emailAddr, 0, now))]

\* the loop over agents of RegisterBatch, from index i on
RECURSIVE registerMembers(_, _, _, _, _, _, _, _)
registerMembers(cbs, agentIDs, i, method, phone, emailAddr, groupID, now) ==
    IF i > Len(agentIDs) THEN cbs
    ELSE registerMembers(
            Put(cbs, agentIDs[i],
                NewCallback(agentIDs[i], method, phone, emailAddr, groupID, now)),
            agentIDs, i + 1, method, phone, emailAddr, groupID, now)

\* RegisterBatch, past validation; the group id is the clock reading
registerBatch(r, agentIDs, method, phone, emailAddr, now) ==
    [r EXCEPT !.callbacks =
                  registerMembers(r.callbacks, agentIDs, 1, method, phone, emailAddr, now, now),
              !.groups =
                  Put(r.groups, now, NewGroup(now, agentIDs, method, phone, emailAddr, now))]

\* a lookup that, for an agent without pending callback, falls back to a
\* pending group that lists the agent as a member
recordResultByMembership(r, info) ==
    LET listing == {g \in DOMAIN r.groups :
                       \E i \in DOMAIN r.groups[g].AgentIDs : r.groups[g].AgentIDs[i] = info.AgentID}
    IN  IF info.AgentID \in DOMAIN r.callbacks
        THEN LET cb == r.callbacks[info.AgentID]
             IN  IF cb.GroupID = 0
                 THEN [reg |-> r, path |-> "single", id |-> cb.ID, gid |-> 0]
                 ELSE IF cb.GroupID \notin DOMAIN r.groups
                 THEN [reg |-> r, path |-> "nogroup", id |-> cb.ID, gid |-> cb.GroupID]
                 ELSE [reg |-> [r EXCEPT !.groups[cb.GroupID].Results =
                                             Put(@, info.AgentID, info)],
                       path |-> "group", id |-> cb.ID, gid |-> cb.GroupID]
        ELSE IF listing = {}
        THEN [reg |-> r, path |-> "none", id |-> << >>, gid |-> 0]
        ELSE LET g == CHOOSE x \in listing : TRUE
             IN  [reg |-> [r EXCEPT !.groups[g].Results = Put(@, info.AgentID, info)],
                  path |-> "group", id |-> << >>, gid |-> g]

\* OnAgentComplete, lines 225-237: the lookup of the callback and of its group,
\* and the recording of the result.  path tells which way the code went.
recordResult(r, info) ==
    IF info.AgentID \notin DOMAIN r.callbacks
    THEN [reg |-> r, path |-> "none", id |-> << >>, gid |-> 0]
    ELSE LET cb == r.callbacks[info.AgentID]
         IN  IF cb.GroupID = 0
             THEN [reg |-> r, path |-> "single", id |-> cb.ID, gid |-> 0]
             ELSE IF cb.GroupID \notin DOMAIN r.groups
             THEN [reg |-> r, path |-> "nogroup", id |-> cb.ID, gid |-> cb.GroupID]
             ELSE [reg |-> [r EXCEPT !.groups[cb.GroupID].Results =
                                         Put(@, info.AgentID, info)],
                   path |-> "group", id |-> cb.ID, gid |-> cb.GroupID]

\* a barrier that fires one result early
allDoneEarly(group) == Cardinality(DOMAIN group.Results) + 1 >= Len(group.AgentIDs)

\* OnAgentComplete, line 240: "Check if all agents in group are done"
allDone(group) == Cardinality(DOMAIN group.Results) = Len(group.AgentIDs)

\* OnAgentComplete between Lock and Unlock: the registry it leaves, its
\* outbound I/O, whether it reached persist(), whether a dispatch ran
onAgentComplete(r, info, callErr, emailErr, now) ==
    LET rec == recordResult(r, info)
        base == [reg |-> rec.reg, io |-> << >>, persisted |-> FALSE,
                 found |-> rec.path # "none", id |-> rec.id, gid |-> rec.gid,
                 timed |-> FALSE]
    IN  CASE rec.path = "none" -> base
          [] rec.path = "nogroup" -> base
          [] rec.path = "group" ->
                IF allDone(rec.reg.groups[rec.gid])
                THEN LET x == executeGroupCallback(rec.reg, rec.reg.groups[rec.gid],
                                                   emailErr, now)
                     IN  [base EXCEPT !.reg = x.reg, !.io = x.io, !.persisted = TRUE,
                                      !.timed = TRUE]
                ELSE [base EXCEPT !.persisted = TRUE]
          [] rec.path = "single" ->
                LET x == executeCallback(r, r.callbacks[info.AgentID], info,
                                         callErr, emailErr, now)
                IN  [base EXCEPT !.reg = x.reg, !.io = x.io, !.persisted = TRUE,
                                 !.timed = TRUE]

\* a Cancel that files the callback it removes in the history
cancelIntoHistory(r, agentID) ==
    IF agentID \in DOMAIN r.callbacks
    THEN [reg |-> [r EXCEPT !.callbacks = Del(r.callbacks, agentID),
                            !.history = appendHistory(r.history,
                                [r.callbacks[agentID] EXCEPT !.Status = "cancelled"])],
          found |-> TRUE]
    ELSE [reg |-> r, found |-> FALSE]

\* Cancel between Lock and Unlock
cancel(r, agentID) ==
    IF agentID \in DOMAIN r.callbacks
    THEN [reg |-> [r EXCEPT !.callbacks = Del(r.callbacks, agentID)], found |-> TRUE]
    ELSE [reg |-> r, found |-> FALSE]

\* The orders in which a range over a Go map may visit the keys in S.
Orders(S) ==
    {s \in [1..Cardinality(S) -> S] : \A i, j \in DOMAIN s : i # j => s[i] # s[j]}

\* the loop of cleanupOrphaned visiting the pending agents in the order given;
\* known is the set of agents the validator reports as existing
RECURSIVE orphanLoop(_, _, _, _)
orphanLoop(r, known, order, i) ==
    IF i > Len(order) THEN r
    ELSE LET agentID == order[i]
         IN  IF agentID \notin known
             THEN orphanLoop(
                    [r EXCEPT !.history = Append(r.history,
                                  [r.callbacks[agentID] EXCEPT !.Status = "orphaned"]),
                              !.callbacks = Del(r.callbacks, agentID)],
                    known, order, i + 1)
             ELSE orphanLoop(r, known, order, i + 1)

\* a cleanup that takes every pending agent for unknown
cleanupOrphanedAll(r, known, order) == orphanLoop(r, {}, order, 1)

cleanupOrphaned(r, known, order) == orphanLoop(r, known, order, 1)

----------------------------------------------------------------------------
(* The record a previous run of the program left behind: both histories    *)
(* full, nothing pending.                                                  *)

PriorCallback(i) ==
    [NewCallback("a0", "email", "", Email, 0, i - 2 * HistoryCap) EXCEPT
        !.CompletedAt = i - 2 * HistoryCap, !.Status = "completed"]

PriorGroup(i) ==
    [NewGroup(i - 4 * HistoryCap, << "a0" >>, "email", "", Email, i - 4 * HistoryCap) EXCEPT
        !.Results = [a \in {"a0"} |->
                        [AgentID |-> "a0", Result |-> "done", ProjectName |-> "",
                         Error |-> ""]],
        !.CompletedAt = i - 4 * HistoryCap, !.Status = "completed"]

PriorFile ==
    persist(Reg(EmptyMap, EmptyMap,
                [i \in 1..HistoryCap |-> PriorCallback(i)],
                [i \in 1..GroupHistoryCap |-> PriorGroup(i)]))

----------------------------------------------------------------------------
(* The state machine: one action per exported operation.                   *)

\* What is observed of one operation.  agent, members, method, phone, email and
\* fn are its arguments; err is the error returned ("" for nil); found is the
\* bool returned by Cancel and, for OnAgentComplete, whether a pending callback
\* was found; id and gid are the id and the group id of the callback found or
\* created; fired tells that executeCallback or executeGroupCallback ran; io is
\* the outbound I/O performed, in order.
NoOp ==
    [op |-> "NewRegistry", agent |-> "", members |-> << >>, method |-> "",
     phone |-> "", email |-> "", fn |-> << >>, err |-> "", found |-> FALSE,
     id |-> << >>, gid |-> 0, fired |-> FALSE, io |-> << >>]

\* A goroutine that has not called OnAgentComplete.  pc is the line it is at;
\* info is the argument of the call; cb is the callback found for the agent and
\* gid the id of the group found for it (0 for none); fired tells that it ran
\* executeGroupCallback or executeCallback, and io is the outbound I/O it did;
\* contended tells that the lock was held by another goroutine when it called.
\* For a goroutine that runs the completion handler of PersonaTools, pid is the
\* process reported, sched the CallbackConfig and ch the ChannelContext it read.
IdleThread ==
    [pc |-> "idle", info |-> << >>, cb |-> << >>, gid |-> 0, fired |-> FALSE,
     io |-> << >>, contended |-> FALSE, pid |-> "", sched |-> << >>, ch |-> << >>]

SetReg(r) ==
    /\ callbacks' = r.callbacks
    /\ groups' = r.groups
    /\ history' = r.history
    /\ groupHistory' = r.groupHistory
    /\ retired' = retired \cup {<< r.history[i].ID, r.history[i].Status >> : i \in DOMAIN r.history}

\* NewPersonaTools: no process has a channel or a scheduled callback, and no
\* Slack client is set; the SMTP host is in the environment or not
InitTools(smtps) ==
    /\ processChannels = EmptyMap
    /\ ptCallbacks = EmptyMap
    /\ slackClient = FALSE
    /\ smtpHost \in smtps

\* NewProcessManager: no server is registered; with it, a subdomain registry
\* without allocation
InitProcessManager ==
    /\ processes = EmptyMap
    /\ allocations = EmptyMap
    /\ servers = EmptyMap

\* NewRegistry over the file f, with the two clients configured or not, on a
\* file system that treats writes as one of disks says
InitRegistry(files, configs, disks) ==
    /\ file \in files
    /\ disk \in disks
    /\ callbacks = NewRegistry(file).callbacks
    /\ groups = NewRegistry(file).groups
    /\ history = NewRegistry(file).history
    /\ groupHistory = NewRegistry(file).groupHistory
    /\ \E cfg \in configs : vapiClient = cfg[1] /\ emailClient = cfg[2]
    /\ clock = 1
    /\ last = NoOp
    /\ cancelled = {}
    /\ retired = {<< history[i].ID, history[i].Status >> : i \in DOMAIN history}
    /\ mu = 0
    /\ threads = [t \in Threads |-> IdleThread]

InitWith(files, configs, disks) ==
    InitRegistry(files, configs, disks) /\ InitTools({FALSE}) /\ InitProcessManager

\* the same where every write succeeds
InitOver(files, configs) == InitWith(files, configs, {"ok"})

\* a Register that takes the callback back and fails when the write fails
RegisterUndoneOnWriteFailure(agentID, method, phone, emailAddr) ==
    LET invalid == RegisterError(method, phone, emailAddr)
        r == registerCallback(Cur, agentID, method, phone, emailAddr, clock)
        err == IF invalid = "" /\ disk # "ok" THEN "failed to persist callbacks"
               ELSE invalid
    IN  /\ IF err # ""
           THEN UNCHANGED <<regvars, clock>>
           ELSE SetReg(r) /\ clock' = clock + 1
        /\ file' = IF invalid = "" THEN writeFile(file, r, disk) ELSE file
        /\ last' = [NoOp EXCEPT !.op = "Register", !.agent = agentID, !.method = method,
                                 !.phone = phone, !.email = emailAddr, !.err = err,
                                 !.id = IF err = "" THEN r.callbacks[agentID].ID ELSE << >>]
        /\ UNCHANGED <<envvars, cancelled, concvars>>

Register(agentID, method, phone, emailAddr) ==
    LET err == RegisterError(method, phone, emailAddr)
        r == registerCallback(Cur, agentID, method, phone, emailAddr, clock)
    IN  /\ IF err # ""
           THEN UNCHANGED <<regvars, file, clock>>
           ELSE /\ SetReg(r)
                /\ file' = writeFile(file, r, disk)
                /\ clock' = clock + 1
        /\ last' = [NoOp EXCEPT !.op = "Register", !.agent = agentID, !.method = method,
                                 !.phone = phone, !.email = emailAddr, !.err = err,
                                 !.id = IF err = "" THEN r.callbacks[agentID].ID ELSE << >>]
        /\ UNCHANGED <<envvars, cancelled, concvars>>

RegisterBatch(agentIDs, method, phone, emailAddr) ==
    LET err == RegisterBatchError(method, phone, emailAddr)
        r == registerBatch(Cur, agentIDs, method, phone, emailAddr, clock)
    IN  /\ IF err # ""
           THEN UNCHANGED <<regvars, file, clock>>
           ELSE /\ SetReg(r)
                /\ file' = writeFile(file, r, disk)
                /\ clock' = clock + 1
        /\ last' = [NoOp EXCEPT !.op = "RegisterBatch", !.members = agentIDs,
                                 !.method = method, !.phone = phone, !.email = emailAddr,
                                 !.err = err, !.gid = IF err = "" THEN clock ELSE 0]
        /\ UNCHANGED <<envvars, cancelled, concvars>>

OnAgentComplete(info, callErr, emailErr) ==
    \E x \in {onAgentComplete(Cur, info, callErr, emailErr, clock)} :
        /\ SetReg(x.reg)
        /\ file' = IF x.persisted THEN writeFile(file, x.reg, disk) ELSE file
        /\ clock' = IF x.timed THEN clock + 1 ELSE clock
        /\ last' = [NoOp EXCEPT !.op = "OnAgentComplete", !.agent = info.AgentID,
                                 !.found = x.found, !.id = x.id, !.gid = x.gid,
                                 !.fired = x.timed, !.io = x.io]
        /\ UNCHANGED <<envvars, cancelled, concvars>>

Cancel(agentID) ==
    LET x == cancel(Cur, agentID)
    IN  /\ SetReg(x.reg)
        /\ file' = IF x.found THEN writeFile(file, x.reg, disk) ELSE file
        /\ last' = [NoOp EXCEPT !.op = "Cancel", !.agent = agentID, !.found = x.found,
                                 !.id = IF x.found THEN callbacks[agentID].ID ELSE << >>]
        /\ cancelled' = IF x.found THEN cancelled \cup {callbacks[agentID].ID}
                        ELSE cancelled
        /\ UNCHANGED <<envvars, clock, concvars>>

\* SetAgentValidator(fn): fn is << >> for nil and << S >> for "agentID \in S".
\* r.agentValidator is read by cleanupOrphaned alone, which only this
\* operation calls, so the field is not kept in the state.
SetAgentValidator(fn) ==
    /\ IF fn = << >>
       THEN UNCHANGED <<regvars, file>>
       ELSE \E order \in Orders(DOMAIN callbacks) :
               LET r == cleanupOrphaned(Cur, fn[1], order)
               IN  /\ SetReg(r)
                   /\ file' = writeFile(file, r, disk)
    /\ last' = [NoOp EXCEPT !.op = "SetAgentValidator", !.fn = fn]
    /\ UNCHANGED <<envvars, clock, cancelled, concvars>>

\* the predicates SetAgentValidator is given: nil, one that knows no agent,
\* one that knows every agent but a1
Validators(As) == {<< >>, << {} >>, << As \ {"a1"} >>}

\* The operations over agents As, member lists Ls, methods Ms, contacts Cs and
\* validators Vs.  Registrations succeed only while the clock is below
\* maxClock; with rejections, those that fail validation are tried at any
\* time.  The call provider is asked only where a method places calls.
NextOver(maxClock, rejections, As, Ls, Ms, Cs, Vs) ==
    \/ \E a \in As, m \in Ms, c \in Cs :
          /\ clock < maxClock \/ (rejections /\ RegisterError(m, c[1], c[2]) # "")
          /\ Register(a, m, c[1], c[2])
    \/ \E l \in Ls, m \in Ms, c \in Cs :
          /\ clock < maxClock \/ (rejections /\ RegisterBatchError(m, c[1], c[2]) # "")
          /\ RegisterBatch(l, m, c[1], c[2])
    \/ \E a \in As, ee \in EmailErrors :
          \E ce \in IF Ms \cap {"call", "both"} = {} THEN {""} ELSE CallErrors :
             \E info \in Infos(a) : OnAgentComplete(info, ce, ee)
    \/ \E a \in As : Cancel(a)
    \/ \E fn \in Vs : SetAgentValidator(fn)

Configs == BOOLEAN \X BOOLEAN
FullContact == {<< Phone, Email >>}
Configured == {<< TRUE, TRUE >>}

\* One registration, single or batch, by call or by email, and all that can
\* follow it.
Init == InitOver({NoFile}, Configured)
Next == NextOver(MaxClock, FALSE, {"a1", "a2"}, BatchLists, {"call", "email"},
                 FullContact, Validators({"a1", "a2"}))
Spec == Init /\ [][Next]_vars

\* One batch of three members, or of a repeated member, and the completions
\* and cancellations of its members.
InitBatch == InitOver({NoFile}, Configured)
NextBatch ==
    \/ /\ clock < MaxClock
       /\ \E l \in WideLists, m \in {"call", "email"} : RegisterBatch(l, m, Phone, Email)
    \/ \E a \in Agents, ee \in EmailErrors :
          \E info \in Infos(a) : OnAgentComplete(info, "", ee)
    \/ \E a \in Agents : Cancel(a)
SpecBatch == InitBatch /\ [][NextBatch]_vars

\* The same where the orchestrator goes on reporting every agent: a
\* completion event of each agent is delivered whenever it would change
\* anything.
Completes(a) ==
    \E ee \in EmailErrors : \E info \in Infos(a) : OnAgentComplete(info, "", ee)
SpecBatchFair == SpecBatch /\ \A a \in Agents : WF_vars(Completes(a))

\* Two registrations, over two agents and the email method; the validator
\* installed knows a2 alone.
InitDeep == InitOver({NoFile}, Configured)
NextDeep == NextOver(MaxClockDeep, FALSE, {"a1", "a2"}, {<< "a1", "a2" >>}, {"email"},
                     FullContact, {<< {"a2"} >>})
SpecDeep == InitDeep /\ [][NextDeep]_vars

\* Registration of one agent over every method, contact and configuration; a
\* Register that fails validation is tried at any time.
InitValidation == InitOver({NoFile, CorruptFile}, Configs)
NextValidation ==
    \/ \E m \in Methods, c \in Contacts :
          /\ clock < MaxClock \/ RegisterError(m, c[1], c[2]) # ""
          /\ Register("a1", m, c[1], c[2])
    \/ /\ clock < MaxClock
       /\ \E m \in Methods, c \in Contacts : RegisterBatch(<< "a1" >>, m, c[1], c[2])
    \/ \E ce \in CallErrors, ee \in EmailErrors :
          \E info \in Infos("a1") : OnAgentComplete(info, ce, ee)
    \/ Cancel("a1")
    \/ \E fn \in Validators({"a1"}) : SetAgentValidator(fn)
SpecValidation == InitValidation /\ [][NextValidation]_vars

\* The program is started again: NewRegistry over the file as it is.
Restart ==
    /\ SetReg(NewRegistry(file))
    /\ last' = NoOp
    /\ mu' = 0
    /\ threads' = [t \in Threads |-> IdleThread]
    /\ UNCHANGED <<envvars, file, clock, cancelled>>

\* One registration and what can follow it, on a file system whose writes
\* succeed or fail, over a file that is absent, unreadable or corrupt at first,
\* with restarts of the program.
InitDurability == InitWith({NoFile, UnreadableFile, CorruptFile}, Configured, Disks)
NextDurability ==
    \/ NextOver(MaxClock, FALSE, {"a1", "a2"}, {<< "a1", "a2" >>}, {"email"},
                FullContact, {<< {"a2"} >>})
    \/ Restart
SpecDurability == InitDurability /\ [][NextDurability]_vars

\* A restart over the record of a previous run.
InitRestart == InitOver({PriorFile}, Configured)
NextRestart == NextOver(MaxClock, FALSE, {"a1", "a2"}, {<< "a1", "a2" >>}, {"email"},
                        FullContact, Validators({"a1", "a2"}))
SpecRestart == InitRestart /\ [][NextRestart]_vars

----------------------------------------------------------------------------
(* The channel-aware notification of package tools (PersonaTools): the     *)
(* channel of each spawned process, the callbacks scheduled by             *)
(* scheduleCallback, and the completion handler that                       *)
(* setupCallbackHandlerOnce registers with the orchestrator.               *)

Procs == {"p1", "p2"}
ChannelContext(type, channelID, userID, emailAddr) ==
    [Type |-> type, ChannelID |-> channelID, UserID |-> userID, Email |-> emailAddr]
\* the channels a request arrives by: a Slack channel, a voice call with and
\* without a captured email, the API
Channels ==
    {ChannelContext("slack", "C1", "U1", ""), ChannelContext("voice", "", Phone, Email),
     ChannelContext("voice", "", Phone, ""), ChannelContext("api", "", "", "")}
\* what slackClient.SendMessage answers
ChatErrors == {"", "channel_not_found"}

\* sendCallbackEmail: the mail smtp.SendMail sends, none without SMTP_HOST;
\* kind tells the mail of a scheduled callback from that of a channel
sendCallbackEmail(to, kind, pid) ==
    IF smtpHost THEN << IO(kind, to, pid, EmptyMap, "") >> ELSE << >>

\* a notification that answers a voice call without email in the Slack channel
notifyChannelVoiceToChat(ch, pid, chatErr) ==
    CASE ch.Type = "slack" \/ (ch.Type = "voice" /\ ch.Email = "") ->
            IF slackClient THEN << IO("chat", ch.ChannelID, pid, EmptyMap, chatErr) >>
            ELSE << >>
      [] ch.Type = "voice" /\ ch.Email # "" -> sendCallbackEmail(ch.Email, "mail", pid)
      [] OTHER -> << >>

\* notifyChannel: the outbound I/O it performs
notifyChannel(ch, pid, chatErr) ==
    CASE ch.Type = "slack" ->
            IF slackClient THEN << IO("chat", ch.ChannelID, pid, EmptyMap, chatErr) >>
            ELSE << >>
      [] ch.Type = "voice" ->
            IF ch.Email # "" THEN sendCallbackEmail(ch.Email, "mail", pid) ELSE << >>
      [] OTHER -> << >>

\* spawnAgent, lines 785-790: ctx carries the channel ch, or none (<< >>)
SpawnAgent(pid, ch) ==
    /\ processChannels' = IF ch # << >> THEN Put(processChannels, pid, ch)
                          ELSE processChannels
    /\ last' = [NoOp EXCEPT !.op = "spawnAgent", !.agent = pid]
    /\ UNCHANGED <<regvars, vapiClient, emailClient, disk, pmvars, ptCallbacks, slackClient,
                   smtpHost, file, clock, cancelled, concvars>>

\* scheduleCallback for a process the orchestrator knows
ScheduleCallback(pid, emailAddr) ==
    /\ ptCallbacks' = Put(ptCallbacks, pid, [Email |-> emailAddr, Subject |-> "Task Completed"])
    /\ last' = [NoOp EXCEPT !.op = "scheduleCallback", !.agent = pid, !.email = emailAddr]
    /\ UNCHANGED <<regvars, vapiClient, emailClient, disk, pmvars, processChannels, slackClient,
                   smtpHost, file, clock, cancelled, concvars>>

SetSlackClient ==
    /\ slackClient' = TRUE
    /\ last' = [NoOp EXCEPT !.op = "SetSlackClient"]
    /\ UNCHANGED <<regvars, vapiClient, emailClient, disk, pmvars, processChannels, ptCallbacks,
                   smtpHost, file, clock, cancelled, concvars>>

\* The handler of setupCallbackHandlerOnce, called by the orchestrator when
\* process pid completes: the mail of the scheduled callback, then the
\* notification of the channel; both entries are removed.  last.agent is the
\* process id and last.found tells that the process had a channel.
OnProcessComplete(pid, chatErr) ==
    LET mail == IF pid \in DOMAIN ptCallbacks
                THEN sendCallbackEmail(ptCallbacks[pid].Email, "callbackMail", pid)
                ELSE << >>
        note == IF pid \in DOMAIN processChannels
                THEN notifyChannel(processChannels[pid], pid, chatErr)
                ELSE << >>
    IN  /\ ptCallbacks' = Del(ptCallbacks, pid)
        /\ processChannels' = Del(processChannels, pid)
        /\ last' = [NoOp EXCEPT !.op = "OnProcessComplete", !.agent = pid,
                                 !.found = pid \in DOMAIN processChannels,
                                 !.io = mail \o note]
        /\ UNCHANGED <<regvars, vapiClient, emailClient, disk, pmvars, slackClient, smtpHost,
                       file, clock, cancelled, concvars>>

InitNotify == InitRegistry({NoFile}, Configured, {"ok"}) /\ InitTools(BOOLEAN) /\ InitProcessManager
NextNotify ==
    \/ \E pid \in Procs, ch \in Channels \cup {<< >>} : SpawnAgent(pid, ch)
    \/ \E pid \in Procs : ScheduleCallback(pid, Email)
    \/ SetSlackClient
    \/ \E pid \in Procs, ce \in ChatErrors : OnProcessComplete(pid, ce)
SpecNotify == InitNotify /\ [][NextNotify]_vars

----------------------------------------------------------------------------
(* OnAgentComplete called from several goroutines.  Each goroutine goes    *)
(* through the lines of OnAgentComplete one statement at a time; r.mu is   *)
(* what keeps the statements of two goroutines from interleaving.          *)

\* a lock that any goroutine may take while another holds it
lockAlwaysFree(m) == TRUE

\* r.mu.Lock() returns once no goroutine holds the lock
lockFree(m) == m = 0

\* the CallbackGroup a goroutine's local variable group points to: the group
\* is in r.groups until executeGroupCallback moves it to r.groupHistory
groupAt(r, gid) ==
    IF gid \in DOMAIN r.groups THEN r.groups[gid]
    ELSE CHOOSE g \in {r.groupHistory[i] : i \in DOMAIN r.groupHistory} : g.ID = gid

\* a goroutine calls OnAgentComplete(info) and reaches r.mu.Lock()
ThreadCall(t, info) ==
    /\ threads[t].pc = "idle"
    /\ threads' = [threads EXCEPT ![t].pc = "lock", ![t].info = info,
                                  ![t].contended = (mu # 0)]
    /\ UNCHANGED <<regvars, envvars, file, clock, last, cancelled, mu>>

\* line 222: r.mu.Lock()
ThreadLock(t) ==
    /\ threads[t].pc = "lock"
    /\ lockFree(mu)
    /\ mu' = t
    /\ threads' = [threads EXCEPT ![t].pc = "lookup"]
    /\ UNCHANGED <<regvars, envvars, file, clock, last, cancelled>>

\* lines 225-237: the lookups and the recording of the result; the two early
\* returns run the deferred r.mu.Unlock()
ThreadLookup(t) ==
    /\ threads[t].pc = "lookup"
    /\ LET info == threads[t].info
           rec == recordResult(Cur, info)
       IN  CASE rec.path \in {"none", "nogroup"} ->
                  /\ threads' = [threads EXCEPT ![t].pc = "done"]
                  /\ mu' = 0
                  /\ UNCHANGED regvars
             [] rec.path = "group" ->
                  /\ SetReg(rec.reg)
                  /\ threads' = [threads EXCEPT ![t].pc = "barrier", ![t].gid = rec.gid,
                                                ![t].cb = callbacks[info.AgentID]]
                  /\ UNCHANGED mu
             [] rec.path = "single" ->
                  /\ threads' = [threads EXCEPT ![t].pc = "single",
                                                ![t].cb = callbacks[info.AgentID]]
                  /\ UNCHANGED <<regvars, mu>>
    /\ UNCHANGED <<envvars, file, clock, last, cancelled>>

\* lines 240-241: the barrier test; when it passes, executeGroupCallback is
\* entered and its request goes out to the provider (line 429)
ThreadBarrier(t) ==
    /\ threads[t].pc = "barrier"
    /\ threads' = [threads EXCEPT ![t].pc =
                      IF allDone(groupAt(Cur, threads[t].gid)) THEN "groupio"
                      ELSE "persist"]
    /\ UNCHANGED <<regvars, envvars, file, clock, last, cancelled, mu>>

\* lines 311-337: the provider has answered, executeGroupCallback records the
\* outcome and returns
ThreadGroupDone(t, emailErr) ==
    /\ threads[t].pc = "groupio"
    /\ LET x == executeGroupCallback(Cur, groupAt(Cur, threads[t].gid), emailErr, clock)
       IN  /\ SetReg(x.reg)
           /\ threads' = [threads EXCEPT ![t].pc = "persist", ![t].fired = TRUE,
                                         ![t].io = x.io]
    /\ clock' = clock + 1
    /\ UNCHANGED <<envvars, file, last, cancelled, mu>>

\* line 245: executeCallback is entered and its request goes out to the
\* provider (lines 359, 386)
ThreadSingle(t) ==
    /\ threads[t].pc = "single"
    /\ threads' = [threads EXCEPT ![t].pc = "io"]
    /\ UNCHANGED <<regvars, envvars, file, clock, last, cancelled, mu>>

\* lines 273-286: the provider has answered, executeCallback records the
\* outcome and returns
ThreadSingleDone(t, callErr, emailErr) ==
    /\ threads[t].pc = "io"
    /\ LET x == executeCallback(Cur, threads[t].cb, threads[t].info, callErr, emailErr, clock)
       IN  /\ SetReg(x.reg)
           /\ threads' = [threads EXCEPT ![t].pc = "persist", ![t].fired = TRUE,
                                         ![t].io = x.io]
    /\ clock' = clock + 1
    /\ UNCHANGED <<envvars, file, last, cancelled, mu>>

\* line 248 and the deferred r.mu.Unlock()
ThreadReturn(t) ==
    /\ threads[t].pc = "persist"
    /\ file' = writeFile(file, Cur, disk)
    /\ mu' = 0
    /\ threads' = [threads EXCEPT ![t].pc = "done"]
    /\ UNCHANGED <<regvars, envvars, clock, last, cancelled>>

\* Registrations by a caller that takes the lock for the whole operation, and
\* one call of OnAgentComplete by each goroutine.
InitConc == InitOver({NoFile}, Configured)
NextConc ==
    \/ /\ lockFree(mu) /\ clock < MaxClock
       /\ \E a \in {"a1", "a2"} : Register(a, "email", Phone, Email)
    \/ /\ lockFree(mu) /\ clock < MaxClock
       /\ RegisterBatch(<< "a1", "a2" >>, "email", Phone, Email)
    \/ \E t \in Threads, a \in {"a1", "a2"} : \E info \in Infos(a) : ThreadCall(t, info)
    \/ \E t \in Threads : ThreadLock(t)
    \/ \E t \in Threads : ThreadLookup(t)
    \/ \E t \in Threads : ThreadBarrier(t)
    \/ \E t \in Threads, ee \in EmailErrors : ThreadGroupDone(t, ee)
    \/ \E t \in Threads : ThreadSingle(t)
    \/ \E t \in Threads, ce \in CallErrors, ee \in EmailErrors : ThreadSingleDone(t, ce, ee)
    \/ \E t \in Threads : ThreadReturn(t)
SpecConc == InitConc /\ [][NextConc]_vars

\* One single callback of a1, the goroutines that report a1 complete, and a
\* caller of Cancel(a1), which takes the lock for the whole operation.
InitRace == InitOver({NoFile}, Configured)
NextRace ==
    \/ /\ lockFree(mu) /\ clock < MaxClock
       /\ \E m \in {"call", "email"} : Register("a1", m, Phone, Email)
    \/ /\ lockFree(mu)
       /\ Cancel("a1")
    \/ \E t \in Threads : \E info \in Infos("a1") : ThreadCall(t, info)
    \/ \E t \in Threads : ThreadLock(t)
    \/ \E t \in Threads : ThreadLookup(t)
    \/ \E t \in Threads : ThreadSingle(t)
    \/ \E t \in Threads, ce \in CallErrors, ee \in EmailErrors : ThreadSingleDone(t, ce, ee)
    \/ \E t \in Threads : ThreadReturn(t)
SpecRace == InitRace /\ [][NextRace]_vars

----------------------------------------------------------------------------
(* The phone number that executeCall writes to the log.  A number is the   *)
(* sequence of its characters here, so that it can be sliced as the code   *)
(* slices it.                                                              *)

Digits == {"1", "5"}
RECURSIVE Strings(_)
Strings(n) ==
    IF n = 0 THEN {<< >>}
    ELSE LET shorter == Strings(n - 1)
         IN  shorter \cup {Append(w, d) : w \in {x \in shorter : Len(x) = n - 1}, d \in Digits}
\* the numbers Register accepts for a call: any that is not empty
PhoneNumbers == Strings(MaxPhoneLen) \ {<< >>}

\* lines 353-356: phone[:3] + "***" + phone[len(phone)-4:] if len(phone) > 6
logPhone(phone) ==
    IF Len(phone) > 6
    THEN SubSeq(phone, 1, 3) \o << "*", "*", "*" >> \o SubSeq(phone, Len(phone) - 3, Len(phone))
    ELSE phone

\* executeCall reaches line 357 for a callback whose CustomerPhone is the
\* number chosen at the start: last.phone is the number, last.io the log line
LogCall ==
    /\ last.op = "Register"
    /\ last' = [last EXCEPT !.op = "executeCall", !.io = << logPhone(last.phone) >>]
    /\ UNCHANGED <<regvars, envvars, file, clock, cancelled, concvars>>

InitLogPhone ==
    /\ callbacks = EmptyMap /\ groups = EmptyMap /\ history = << >> /\ groupHistory = << >>
    /\ retired = {} /\ cancelled = {}
    /\ vapiClient = TRUE /\ emailClient = TRUE /\ disk = "ok" /\ file = NoFile
    /\ InitTools({FALSE}) /\ InitProcessManager
    /\ clock = 1 /\ mu = 0 /\ threads = [t \in Threads |-> IdleThread]
    /\ \E number \in PhoneNumbers :
          last = [NoOp EXCEPT !.op = "Register", !.method = "call", !.phone = number]
NextLogPhone == LogCall
SpecLogPhone == InitLogPhone /\ [][NextLogPhone]_vars

----------------------------------------------------------------------------
(* The view link of the batch email.  executeBatchEmail ranges over the    *)
(* map group.Results, and a range over a Go map visits the keys in an      *)
(* order the runtime chooses anew each time.                               *)

Projects == {"", "alpha", "beta"}
LinkLists == {<< "a1", "a2" >>, << "a2", "a1" >>, << "a1", "a2", "a3" >>}
\* what r.getServerURL answers for a project
ServerURL(project) == << "https://", project >>

\* the completion info of a member that worked in the given project
ProjectInfo(agentID, project) ==
    [AgentID |-> agentID, Result |-> "done", ProjectName |-> project, Error |-> ""]
\* the groups whose members have all reported, as executeGroupCallback finds
\* them at the barrier
FullGroups ==
    UNION {{[NewGroup(1, l, "email", Phone, Email, 1) EXCEPT
               !.Results = [a \in DOMAIN pr |-> ProjectInfo(a, pr[a])]] :
            pr \in [{l[i] : i \in DOMAIN l} -> Projects]} : l \in LinkLists}

\* lines 400-409: viewURL, where the range over group.Results visits the keys
\* in the order given and lookup tells that r.getServerURL is not nil
viewURL(group, lookup, order) ==
    LET withProject == {i \in DOMAIN order : group.Results[order[i]].ProjectName # ""}
    IN  IF ~lookup \/ withProject = {} THEN ""
        ELSE LET i == CHOOSE x \in withProject : \A y \in withProject : x <= y
             IN  ServerURL(group.Results[order[i]].ProjectName)

\* executeBatchEmail resolves the link for the group at the barrier; last.fn
\* holds lookup and last.io the link
ResolveViewURL(gid, lookup, order) ==
    /\ gid \in DOMAIN groups
    /\ last' = [NoOp EXCEPT !.op = "executeBatchEmail", !.gid = gid, !.fn = << lookup >>,
                            !.members = order,
                            !.io = << viewURL(groups[gid], lookup, order) >>]
    /\ UNCHANGED <<regvars, envvars, file, clock, cancelled, concvars>>

InitViewURL ==
    /\ \E g \in FullGroups : groups = Put(EmptyMap, g.ID, g)
    /\ callbacks = EmptyMap /\ history = << >> /\ groupHistory = << >>
    /\ retired = {} /\ cancelled = {}
    /\ vapiClient = TRUE /\ emailClient = TRUE /\ disk = "ok" /\ file = NoFile
    /\ InitTools({FALSE}) /\ InitProcessManager
    /\ clock = 1 /\ mu = 0 /\ threads = [t \in Threads |-> IdleThread]
    /\ last = NoOp
NextViewURL ==
    \E gid \in DOMAIN groups, lookup \in BOOLEAN :
       \E order \in Orders(DOMAIN groups[gid].Results) : ResolveViewURL(gid, lookup, order)
SpecViewURL == InitViewURL /\ [][NextViewURL]_vars

----------------------------------------------------------------------------
(* The subject of the single-callback email.  A Go string is a sequence of *)
(* bytes: len counts bytes and s[:n] slices bytes.  A text is the sequence *)
(* of its characters here, "e" standing for a character of one byte in     *)
(* UTF-8 and "E" for one of two ("\u00e9"), whose bytes are "E1" and "E2". *)

RECURSIVE Repeat(_, _)
Repeat(c, n) == IF n = 0 THEN << >> ELSE << c >> \o Repeat(c, n - 1)
\* the task summaries: some one-byte characters, some two-byte characters,
\* some one-byte characters
Summaries ==
    {Repeat("e", i) \o Repeat("E", j) \o Repeat("e", k) :
        i \in 0..MaxSummaryLen, j \in 0..2, k \in 0..2}
\* the Go string of a text: its UTF-8 bytes
RECURSIVE Bytes(_)
Bytes(text) ==
    IF text = << >> THEN << >>
    ELSE (IF Head(text) = "E" THEN << "E1", "E2" >> ELSE << Head(text) >>) \o Bytes(Tail(text))
\* the number of characters a reader finds in a Go string: every byte that
\* does not continue a character starts one
Characters(bytes) == Len(SelectSeq(bytes, LAMBDA b : b # "E2"))

AgentName == << "T", "o", "n", "y" >>
Completed == << " ", "c", "o", "m", "p", "l", "e", "t", "e", "d", ":", " " >>
Failed == << " ", "f", "a", "i", "l", "e", "d", ":", " " >>
Ellipsis == << ".", ".", "." >>

\* executeEmail, lines 373-384: the context handed to the email client
CallbackContext(agentName, taskSummary, info) ==
    [AgentName |-> agentName, TaskSummary |-> taskSummary, Success |-> info.Error = ""]

\* buildSubject, on Go strings
buildSubject(ctx) ==
    LET subject == Bytes(ctx.AgentName) \o (IF ctx.Success THEN Completed ELSE Failed)
                      \o Bytes(ctx.TaskSummary)
    IN  IF Len(subject) > SubjectCap THEN SubSeq(subject, 1, SubjectCut) \o Ellipsis
        ELSE subject

\* SendTaskComplete builds the subject for the callback registered at the
\* start and the completion info received: last.members is the task summary,
\* last.err the error text of the info, last.io the subject
BuildSubject ==
    /\ last.op = "executeEmail"
    /\ last' = [last EXCEPT !.op = "buildSubject",
          !.io = << buildSubject(CallbackContext(AgentName, last.members,
                                                 [Error |-> last.err])) >>]
    /\ UNCHANGED <<regvars, envvars, file, clock, cancelled, concvars>>

InitSubject ==
    /\ callbacks = EmptyMap /\ groups = EmptyMap /\ history = << >> /\ groupHistory = << >>
    /\ retired = {} /\ cancelled = {}
    /\ vapiClient = TRUE /\ emailClient = TRUE /\ disk = "ok" /\ file = NoFile
    /\ InitTools({FALSE}) /\ InitProcessManager
    /\ clock = 1 /\ mu = 0 /\ threads = [t \in Threads |-> IdleThread]
    /\ \E summary \in Summaries, e \in {"", "exit status 1"} :
          last = [NoOp EXCEPT !.op = "executeEmail", !.method = "email",
                              !.members = summary, !.err = e]
NextSubject == BuildSubject
SpecSubject == InitSubject /\ [][NextSubject]_vars

----------------------------------------------------------------------------
(* The completion handler of PersonaTools run by several goroutines of the *)
(* orchestrator.  callbacksMu and processChannelsMu are each held for one  *)
(* map access only, so every map access is one step and the sends are     *)
(* steps of their own in between.                                          *)

\* the orchestrator calls the handler for process pid
HandlerCall(t, pid) ==
    /\ threads[t].pc = "idle"
    /\ threads' = [threads EXCEPT ![t].pc = "readCallback", ![t].pid = pid]
    /\ UNCHANGED <<regvars, envvars, file, clock, last, cancelled, mu>>

\* lines 884-888: callback, ok := pt.callbacks[p.ID] under RLock
HandlerReadCallback(t) ==
    /\ threads[t].pc = "readCallback"
    /\ threads' = IF threads[t].pid \in DOMAIN ptCallbacks
                  THEN [threads EXCEPT ![t].pc = "sendMail",
                                       ![t].sched = ptCallbacks[threads[t].pid]]
                  ELSE [threads EXCEPT ![t].pc = "readChannel"]
    /\ UNCHANGED <<regvars, envvars, file, clock, last, cancelled, mu>>

\* line 889: pt.sendCallbackEmail(callback.Email, callback.Subject, result)
HandlerSendMail(t) ==
    /\ threads[t].pc = "sendMail"
    /\ threads' = [threads EXCEPT ![t].pc = "deleteCallback",
          ![t].io = @ \o sendCallbackEmail(threads[t].sched.Email, "callbackMail", threads[t].pid)]
    /\ UNCHANGED <<regvars, envvars, file, clock, last, cancelled, mu>>

\* lines 892-894: delete(pt.callbacks, p.ID) under Lock
HandlerDeleteCallback(t) ==
    /\ threads[t].pc = "deleteCallback"
    /\ ptCallbacks' = Del(ptCallbacks, threads[t].pid)
    /\ threads' = [threads EXCEPT ![t].pc = "readChannel"]
    /\ UNCHANGED <<regvars, vapiClient, emailClient, disk, pmvars, processChannels, slackClient,
                   smtpHost, file, clock, last, cancelled, mu>>

\* lines 898-902: ch, hasChannel := pt.processChannels[p.ID] under RLock
HandlerReadChannel(t) ==
    /\ threads[t].pc = "readChannel"
    /\ threads' = IF threads[t].pid \in DOMAIN processChannels
                  THEN [threads EXCEPT ![t].pc = "notify",
                                       ![t].ch = processChannels[threads[t].pid]]
                  ELSE [threads EXCEPT ![t].pc = "done"]
    /\ UNCHANGED <<regvars, envvars, file, clock, last, cancelled, mu>>

\* line 903: pt.notifyChannel(ch, p, result)
HandlerNotify(t, chatErr) ==
    /\ threads[t].pc = "notify"
    /\ threads' = [threads EXCEPT ![t].pc = "deleteChannel", ![t].fired = TRUE,
          ![t].io = @ \o notifyChannel(threads[t].ch, threads[t].pid, chatErr)]
    /\ UNCHANGED <<regvars, envvars, file, clock, last, cancelled, mu>>

\* lines 904-906: delete(pt.processChannels, p.ID) under Lock
HandlerDeleteChannel(t) ==
    /\ threads[t].pc = "deleteChannel"
    /\ processChannels' = Del(processChannels, threads[t].pid)
    /\ threads' = [threads EXCEPT ![t].pc = "done"]
    /\ UNCHANGED <<regvars, vapiClient, emailClient, disk, pmvars, ptCallbacks, slackClient,
                   smtpHost, file, clock, last, cancelled, mu>>

\* One process p1, spawned once from a Slack channel or a voice call with an
\* email, before any completion event; each goroutine delivers one completion
\* event of p1.
HandlerChannels == {ch \in Channels : ch.Type = "slack" \/ ch.Email # ""}
NoneCalled == \A t \in Threads : threads[t].pc = "idle"
InitHandler == InitRegistry({NoFile}, Configured, {"ok"}) /\ InitTools({TRUE}) /\ InitProcessManager
NextHandler ==
    \/ /\ NoneCalled /\ processChannels = EmptyMap
       /\ \E ch \in HandlerChannels : SpawnAgent("p1", ch)
    \/ /\ NoneCalled /\ "p1" \in DOMAIN processChannels /\ ptCallbacks = EmptyMap
       /\ ScheduleCallback("p1", Email)
    \/ NoneCalled /\ ~slackClient /\ SetSlackClient
    \/ \E t \in Threads : ("p1" \in DOMAIN processChannels \/ ~NoneCalled) /\ HandlerCall(t, "p1")
    \/ \E t \in Threads : HandlerReadCallback(t)
    \/ \E t \in Threads : HandlerSendMail(t)
    \/ \E t \in Threads : HandlerDeleteCallback(t)
    \/ \E t \in Threads : HandlerReadChannel(t)
    \/ \E t \in Threads, ce \in ChatErrors : HandlerNotify(t, ce)
    \/ \E t \in Threads : HandlerDeleteChannel(t)
SpecHandler == InitHandler /\ [][NextHandler]_vars

----------------------------------------------------------------------------
(* The process manager of package subdomain.  StartServer, StopServer and  *)
(* Shutdown hold pm.mu from entry to return, and monitorProcess holds it   *)
(* from the return of cmd.Wait() on, so each is one step; the exit of the  *)
(* OS process is a step of its own before the monitor's.  A ServerProcess  *)
(* is named by the number of its start.  The subdomain registry is outside *)
(* the sources: Allocate is taken to record the allocation for the project *)
(* and Release to drop it.                                                 *)

ProjectNames == {"web", "docs"}
\* what Allocate and cmd.Start answer
StartOutcomes == {"ok", "allocate fails", "start fails"}

\* the ServerProcess literal of StartServer; killed tells that proc.cancel()
\* was called, exited that cmd.Wait() has returned, failed what it returned,
\* monitored that the goroutine of monitorProcess has not finished
ServerProcess(projectName) ==
    [ProjectName |-> projectName, Status |-> "running", killed |-> FALSE,
     exited |-> FALSE, failed |-> FALSE, monitored |-> TRUE]

Running(projectName) ==
    /\ projectName \in DOMAIN processes
    /\ servers[processes[projectName]].Status = "running"

StartServer(projectName, outcome) ==
    LET proc == Cardinality(DOMAIN servers) + 1
    IN  /\ CASE Running(projectName) \/ outcome = "allocate fails" ->
                  UNCHANGED pmvars
             [] ~Running(projectName) /\ outcome = "start fails" ->
                  /\ allocations' = Del(allocations, projectName)
                  /\ UNCHANGED <<processes, servers>>
             [] ~Running(projectName) /\ outcome = "ok" ->
                  /\ allocations' = Put(allocations, projectName, proc)
                  /\ servers' = Put(servers, proc, ServerProcess(projectName))
                  /\ processes' = Put(processes, projectName, proc)
        /\ UNCHANGED <<regvars, vapiClient, emailClient, disk, toolvars, file, clock,
                       last, cancelled, concvars>>

StopServer(projectName) ==
    /\ IF projectName \notin DOMAIN processes
       THEN UNCHANGED pmvars
       ELSE /\ servers' = [servers EXCEPT ![processes[projectName]].killed = TRUE,
                                          ![processes[projectName]].Status = "stopped"]
            /\ allocations' = Del(allocations, projectName)
            /\ processes' = Del(processes, projectName)
    /\ UNCHANGED <<regvars, vapiClient, emailClient, disk, toolvars, file, clock,
                   last, cancelled, concvars>>

\* line 141: the OS process of proc ends, by itself or killed, and cmd.Wait()
\* returns; a killed process ends with an error
ProcessExit(proc, failed) ==
    /\ proc \in DOMAIN servers /\ ~servers[proc].exited
    /\ servers[proc].killed => failed
    /\ servers' = [servers EXCEPT ![proc].exited = TRUE, ![proc].failed = failed]
    /\ UNCHANGED <<regvars, vapiClient, emailClient, disk, toolvars, processes, allocations,
                   file, clock, last, cancelled, concvars>>

\* lines 143-153 of monitorProcess: the release and the delete go by the
\* project name of proc
MonitorProcess(proc) ==
    /\ proc \in DOMAIN servers /\ servers[proc].exited /\ servers[proc].monitored
    /\ servers' = [servers EXCEPT ![proc].monitored = FALSE,
                      ![proc].Status = IF servers[proc].failed THEN "failed" ELSE "stopped"]
    /\ allocations' = Del(allocations, servers[proc].ProjectName)
    /\ processes' = Del(processes, servers[proc].ProjectName)
    /\ UNCHANGED <<regvars, vapiClient, emailClient, disk, toolvars, file, clock,
                   last, cancelled, concvars>>

Shutdown ==
    /\ servers' = [proc \in DOMAIN servers |->
                      IF \E n \in DOMAIN processes : processes[n] = proc
                      THEN [servers[proc] EXCEPT !.killed = TRUE] ELSE servers[proc]]
    /\ allocations' = [n \in DOMAIN allocations \ DOMAIN processes |-> allocations[n]]
    /\ processes' = EmptyMap
    /\ UNCHANGED <<regvars, vapiClient, emailClient, disk, toolvars, file, clock,
                   last, cancelled, concvars>>

InitServers ==
    InitRegistry({NoFile}, Configured, {"ok"}) /\ InitTools({FALSE}) /\ InitProcessManager
NextServers ==
    \/ \E n \in ProjectNames, o \in StartOutcomes :
          /\ Cardinality(DOMAIN servers) < MaxStarts
          /\ StartServer(n, o)
    \/ \E n \in ProjectNames : StopServer(n)
    \/ \E proc \in 1..MaxStarts, failed \in BOOLEAN : ProcessExit(proc, failed)
    \/ \E proc \in 1..MaxStarts : MonitorProcess(proc)
    \/ Shutdown
SpecServers == InitServers /\ [][NextServers]_vars

----------------------------------------------------------------------------
(* Accessors, and vocabulary of the properties.                            *)

\* Get: the pending callback of an agent, << >> for nil
Get(agentID) == IF agentID \in DOMAIN callbacks THEN callbacks[agentID] ELSE << >>
\* ListPending and ListHistory, as the set and the sequence of what they return
ListPending == {callbacks[a] : a \in DOMAIN callbacks}
ListHistory == history

Range(s) == {s[i] : i \in DOMAIN s}
Distinct(s) == \A i, j \in DOMAIN s : i # j => s[i] # s[j]
Last(s) == s[Len(s)]
\* the batch emails among the outbound I/O of an operation
BatchEmails(io) == {i \in DOMAIN io : io[i].kind = "batchEmail"}
\* the group-history entries written in this run (a restart loads older ones)
OwnGroupHistory == {i \in DOMAIN groupHistory : groupHistory[i].ID >= 1}
OwnHistory == {i \in DOMAIN history : history[i].ID[2] >= 1}

----------------------------------------------------------------------------
\* C1: a group of N >= 1 distinct members is not dispatched while fewer than N
\* completion infos are recorded (every group in group history holds the
\* results of exactly its members), is dispatched by the OnAgentComplete that
\* records the N-th (no pending group holds all N), is dispatched once (one
\* entry in group history, and it is no longer pending), and the one batch
\* email of the dispatch carries the results of all N members.
C1_GroupDispatchAtBarrier ==
    /\ \A g \in DOMAIN groups :
          (Distinct(groups[g].AgentIDs) /\ Len(groups[g].AgentIDs) >= 1)
             => Cardinality(DOMAIN groups[g].Results) < Len(groups[g].AgentIDs)
    /\ \A i \in OwnGroupHistory :
          LET g == groupHistory[i]
          IN  Distinct(g.AgentIDs) =>
                /\ DOMAIN g.Results = Range(g.AgentIDs)
                /\ g.ID \notin DOMAIN groups
                /\ \A j \in OwnGroupHistory : groupHistory[j].ID = g.ID => j = i
    /\ (last.op = "OnAgentComplete" /\ last.fired /\ last.gid # 0) =>
          /\ Len(groupHistory) >= 1
          /\ Last(groupHistory).ID = last.gid
          /\ last.agent \in Range(Last(groupHistory).AgentIDs)
          /\ Cardinality(BatchEmails(last.io)) <= 1
          /\ \A i \in BatchEmails(last.io) :
                /\ last.io[i].results = Last(groupHistory).Results
                /\ DOMAIN last.io[i].results = Range(Last(groupHistory).AgentIDs)
    /\ (last.op # "OnAgentComplete" \/ ~last.fired) => last.io = << >>

\* C1 witness: the completion of a3 arrives last of three and fires the one
\* batch email, carrying three results.
C1_Witness ==
    /\ last.op = "OnAgentComplete" /\ last.agent = "a3" /\ last.fired
    /\ Len(groupHistory) >= 1
    /\ Last(groupHistory).AgentIDs = << "a1", "a2", "a3" >>
    /\ \E i \in BatchEmails(last.io) : DOMAIN last.io[i].results = {"a1", "a2", "a3"}

\* C1 witness of another arrival order: a1 arrives last of three.
C1_WitnessOtherOrder ==
    /\ last.op = "OnAgentComplete" /\ last.agent = "a1" /\ last.fired
    /\ Len(groupHistory) >= 1
    /\ Last(groupHistory).AgentIDs = << "a1", "a2", "a3" >>
    /\ \E i \in BatchEmails(last.io) : DOMAIN last.io[i].results = {"a1", "a2", "a3"}

----------------------------------------------------------------------------
\* In the step being taken, the callback cb is retired: it is pending no longer
\* and history holds it with a status in S.
RetiredNext(cb, S) ==
    /\ \A b \in DOMAIN callbacks' : callbacks'[b].ID # cb.ID
    /\ \E i \in DOMAIN history' : history'[i].ID = cb.ID /\ history'[i].Status \in S

\* the step is OnAgentComplete for agent a / a cleanupOrphaned pass whose
\* predicate reports agent a unknown
CompletesAgent(a) == last'.op = "OnAgentComplete" /\ last'.agent = a
OrphansAgent(a) ==
    last'.op = "SetAgentValidator" /\ last'.fn # << >> /\ a \notin last'.fn[1]

\* C3 as claimed: one OnAgentComplete for an agent with a Pending callback
\* (single or group member), or one cleanupOrphaned pass reporting the agent
\* unknown, leaves the callback not pending, with status Completed, Failed or
\* Orphaned.
C3_Original ==
    [][\A a \in DOMAIN callbacks :
          (CompletesAgent(a) \/ OrphansAgent(a))
             => RetiredNext(callbacks[a], {"completed", "failed", "orphaned"})]_vars

\* C3 amended: one OnAgentComplete retires a Pending single callback as
\* Completed or Failed; it retires a Pending group member, as Completed or
\* Failed, only when it completes the barrier of the member's group, and
\* otherwise leaves the member Pending and unchanged; one cleanupOrphaned pass
\* reporting the agent unknown retires the callback as Orphaned.
C3_TerminalStatus ==
    [][\A a \in DOMAIN callbacks :
          LET cb == callbacks[a]
          IN  /\ CompletesAgent(a) =>
                    IF cb.GroupID = 0 \/ last'.fired
                    THEN RetiredNext(cb, {"completed", "failed"})
                    ELSE a \in DOMAIN callbacks' /\ callbacks'[a] = cb
                                                 /\ cb.Status = "pending"
              /\ OrphansAgent(a) => RetiredNext(cb, {"orphaned"})]_vars

\* C3 witnesses: a single callback retired by its completion; a group member
\* left pending by its completion; a callback retired by the orphan pass.
C3_Witness ==
    /\ last.op = "OnAgentComplete" /\ last.found /\ last.gid = 0
    /\ last.agent \notin DOMAIN callbacks
    /\ Len(history) >= 1 /\ Last(history).ID = last.id
    /\ Last(history).Status \in {"completed", "failed"}

C3_WitnessMemberStaysPending ==
    /\ last.op = "OnAgentComplete" /\ last.found /\ last.gid # 0 /\ ~last.fired
    /\ last.agent \in DOMAIN callbacks
    /\ callbacks[last.agent].Status = "pending"

C3_WitnessOrphaned ==
    /\ last.op = "SetAgentValidator" /\ last.fn # << >>
    /\ Len(history) >= 1 /\ Last(history).Status = "orphaned"
    /\ Last(history).AgentID \notin last.fn[1]

----------------------------------------------------------------------------
\* Agent a has already received a completion event: its pending callback is a
\* group member whose result is recorded, or history holds a callback of a that
\* a dispatch retired and a has no other callback pending.
Received(a) ==
    \/ /\ a \in DOMAIN callbacks
       /\ callbacks[a].GroupID \in DOMAIN groups
       /\ a \in DOMAIN groups[callbacks[a].GroupID].Results
    \/ \E i \in DOMAIN history :
          /\ history[i].AgentID = a
          /\ history[i].Status \in {"completed", "failed"}
          /\ a \in DOMAIN callbacks => callbacks[a].ID = history[i].ID

C4_WitnessSingle ==
    /\ last.op = "OnAgentComplete" /\ ~last.found
    /\ \E i \in DOMAIN history :
          history[i].AgentID = last.agent /\ history[i].GroupID = 0
                                          /\ history[i].Status = "completed"

----------------------------------------------------------------------------
\* old is new's past under first-in first-out eviction with capacity cap:
\* new is old without its k oldest entries, followed by the entries added, and
\* entries were evicted only to bring new down to cap.
FIFOStep(old, new, cap) ==
    \E k \in 0..Len(old) :
       /\ Len(new) >= Len(old) - k
       /\ SubSeq(new, 1, Len(old) - k) = SubSeq(old, k + 1, Len(old))
       /\ k > 0 => Len(new) = cap

\* C5: in every reachable state the callback history holds at most 100 entries
\* and the group history at most 50, and every operation changes each of them
\* first-in first-out: the oldest entries are evicted first, only when the
\* capacity would be exceeded, and the newest entries stay last.
C5_HistoryBounded ==
    [][/\ Len(history') <= HistoryCap
       /\ Len(groupHistory') <= GroupHistoryCap
       /\ FIFOStep(history, history', HistoryCap)
       /\ FIFOStep(groupHistory, groupHistory', GroupHistoryCap)]_vars

----------------------------------------------------------------------------
\* C6: Cancel(agentID) on an agent with a pending callback returns true and
\* removes it from ListPending without writing either history; and no callback
\* that Cancel removed is in ListHistory in any later state, whatever
\* operations follow.
C6_CancelledNeverInHistory ==
    [][/\ \A a \in Agents :
             (last'.op = "Cancel" /\ last'.agent = a /\ a \in DOMAIN callbacks)
                => /\ last'.found
                   /\ callbacks[a] \notin ListPending'
                   /\ a \notin DOMAIN callbacks'
                   /\ callbacks[a].ID \in cancelled'
                   /\ UNCHANGED <<history, groupHistory>>
       /\ \A i \in DOMAIN ListHistory' : ListHistory'[i].ID \notin cancelled']_vars

\* C6 witnesses: after a Cancel of a1, a completion event for a1 arrived; the
\* other member of its group completed; an orphan cleanup ran.
C6_Witness ==
    /\ \E id \in cancelled : id[1] = last.agent
    /\ last.op = "OnAgentComplete"

C6_WitnessGroupMember ==
    /\ \E id \in cancelled : \E g \in DOMAIN groups :
          /\ id[1] \in Range(groups[g].AgentIDs) /\ id[2] = g
          /\ DOMAIN groups[g].Results # {}
    /\ last.op = "OnAgentComplete" /\ last.found

C6_WitnessCleanup ==
    /\ cancelled # {}
    /\ last.op = "SetAgentValidator" /\ last.fn = << {} >>
    /\ history # << >>

----------------------------------------------------------------------------
\* C7: in every reachable state, a registry constructed from the persisted
\* record has the pending callbacks, the pending groups with their recorded
\* completion infos, the callback history and the group history of the
\* registry that wrote the record.
C7_ReloadReproduces == NewRegistry(file) = Cur

\* C7 witness: the record holds a pending group with the failed result of one
\* member, a pending member, and a retired callback.
C7_Witness ==
    /\ file[1] = "json"
    /\ \E g \in DOMAIN groups : \E a \in DOMAIN groups[g].Results :
          groups[g].Results[a].Error # ""
    /\ \E a \in DOMAIN callbacks : callbacks[a].GroupID # 0
    /\ history # << >>

----------------------------------------------------------------------------
\* the condition under which C8 says Register fails
C8_Rejects(method, phone, emailAddr) ==
    \/ /\ method \in {"call", "both"}
       /\ (phone = "" \/ ~vapiClient)
    \/ /\ method \in {"email", "both"}
       /\ (emailAddr = "" \/ ~emailClient)

\* C8: Register fails, leaving pending callbacks, groups and both histories
\* unchanged, when the method is call or both and the phone is empty or the
\* call client is not configured, or the method is email or both and the
\* email is empty or the email client is not configured; otherwise it succeeds
\* and the callback it returns is pending under the agent id.
C8_RegisterValidation ==
    [][last'.op = "Register" =>
          IF C8_Rejects(last'.method, last'.phone, last'.email)
          THEN /\ last'.err # ""
               /\ UNCHANGED <<callbacks, groups, history, groupHistory>>
          ELSE /\ last'.err = ""
               /\ last'.agent \in DOMAIN callbacks'
               /\ callbacks'[last'.agent].ID = last'.id
               /\ callbacks'[last'.agent].AgentID = last'.agent
               /\ callbacks'[last'.agent].Status = "pending"
               /\ callbacks'[last'.agent] \in ListPending']_vars

\* C8 witnesses: a Register rejected for an unconfigured client with a pending
\* callback in place; a Register accepted.
C8_Witness ==
    /\ last.op = "Register" /\ last.method = "both" /\ last.phone # "" /\ last.email # ""
    /\ last.err # "" /\ vapiClient /\ ~emailClient
    /\ callbacks # << >>

C8_WitnessAccepted ==
    /\ last.op = "Register" /\ last.method = "both" /\ last.err = ""
    /\ Get(last.agent) # << >>

----------------------------------------------------------------------------
\* C9: RegisterBatch is rejected exactly when Register would be rejected for
\* the same method, phone, email and client configuration.
C9_BatchSameValidation ==
    last.op = "RegisterBatch" =>
        ((last.err # "") <=> (RegisterError(last.method, last.phone, last.email) # ""))

----------------------------------------------------------------------------
\* C10: in every state each agent id has at most one pending callback; and a
\* successful Register or RegisterBatch for an agent id that has a pending
\* callback replaces it: Get(agentID) is the newly registered callback and the
\* earlier one is no longer pending.
C10_OnePendingPerAgent ==
    [][/\ \A cb1, cb2 \in ListPending' : cb1.AgentID = cb2.AgentID => cb1 = cb2
       /\ \A a \in DOMAIN callbacks :
             (/\ last'.err = ""
              /\ \/ last'.op = "Register" /\ last'.agent = a
                 \/ last'.op = "RegisterBatch" /\ a \in Range(last'.members))
                => /\ a \in DOMAIN callbacks'
                   /\ callbacks'[a].ID = << a, clock >>
                   /\ callbacks'[a].Status = "pending"
                   /\ callbacks'[a].GroupID = last'.gid
                   /\ callbacks'[a].ID # callbacks[a].ID
                   /\ \A cb \in ListPending' : cb.ID # callbacks[a].ID]_vars

\* C10 witnesses: a Register replaced the callback a1 had as member of a batch;
\* a RegisterBatch replaced the single callback of a1.
C10_Witness ==
    /\ last.op = "Register" /\ last.err = "" /\ last.id = << "a1", 2 >>
    /\ 1 \in DOMAIN groups /\ "a1" \in Range(groups[1].AgentIDs)
    /\ cancelled = {} /\ history = << >>
    /\ "a1" \in DOMAIN callbacks /\ callbacks["a1"].GroupID = 0

C10_WitnessBatch ==
    /\ last.op = "RegisterBatch" /\ last.err = "" /\ last.gid = 2
    /\ cancelled = {} /\ history = << >> /\ DOMAIN groups = {2}
    /\ "a1" \in DOMAIN callbacks /\ callbacks["a1"].GroupID = 2

----------------------------------------------------------------------------
\* the goroutines that have recorded a result for group g and left the barrier
\* test behind, and those that ran the dispatch of g
PastBarrier(g) ==
    {t \in Threads : threads[t].gid = g /\ threads[t].pc \in {"persist", "done"}}
Dispatchers(g) == {t \in Threads : threads[t].gid = g /\ threads[t].fired}

\* C2: when goroutines call OnAgentComplete concurrently for members of one
\* group, at most one of them dispatches the group, the one that does has seen
\* the completion map as large as the member list, the group is retired once,
\* and once every member has been reported by a goroutine that is past the
\* barrier test exactly one goroutine has dispatched: never zero, never two.
C2_OneDispatcher ==
    \A g \in {threads[t].gid : t \in Threads} \ {0} :
       LET group == groupAt(Cur, g)
           reported == {threads[t].info.AgentID : t \in PastBarrier(g)}
       IN  /\ Cardinality(Dispatchers(g)) <= 1
           /\ Cardinality({i \in DOMAIN groupHistory : groupHistory[i].ID = g}) <= 1
           /\ \A t \in Dispatchers(g) :
                 /\ Cardinality(DOMAIN group.Results) = Len(group.AgentIDs)
                 /\ Cardinality(BatchEmails(threads[t].io)) = 1
           /\ reported = Range(group.AgentIDs)
                 => /\ Cardinality(Dispatchers(g)) = 1
                    /\ g \notin DOMAIN groups
                    /\ \E i \in DOMAIN groupHistory : groupHistory[i].ID = g

\* C2 witness: two goroutines reported the two members of a group, the second
\* having called while the first held the lock, and the second alone
\* dispatched.  C2_WitnessWaiting: a goroutine waits for the lock while the
\* other is at the barrier test.
C2_Witness ==
    \E t1, t2 \in Threads :
       /\ threads[t1].pc = "done" /\ threads[t2].pc = "done"
       /\ threads[t1].gid # 0 /\ threads[t1].gid = threads[t2].gid
       /\ threads[t1].info.AgentID # threads[t2].info.AgentID
       /\ threads[t2].contended
       /\ threads[t2].fired /\ ~threads[t1].fired

C2_WitnessWaiting ==
    \E t1, t2 \in Threads :
       /\ threads[t1].pc = "barrier" /\ mu = t1
       /\ threads[t2].pc = "lock"
       /\ threads[t1].info.AgentID # threads[t2].info.AgentID

----------------------------------------------------------------------------
\* the entries a step appends to the callback history, none being evicted
Appended == SubSeq(history', Len(history) + 1, Len(history'))

\* C11: SetAgentValidator(fn) with a predicate fn runs cleanupOrphaned: every
\* pending callback whose agent fn reports unknown is pending no longer and
\* was appended to the callback history with status Orphaned, otherwise
\* unchanged; every pending callback whose agent fn reports as existing stays
\* pending and unchanged; nothing else enters the history, the groups and the
\* group history are untouched, and no call or email goes out.
C11_CleanupOrphaned ==
    [][(last'.op = "SetAgentValidator" /\ last'.fn # << >>) =>
          LET known == last'.fn[1]
              orphans == {a \in DOMAIN callbacks : a \notin known}
          IN  /\ DOMAIN callbacks' = (DOMAIN callbacks) \ orphans
              /\ \A a \in DOMAIN callbacks' : callbacks'[a] = callbacks[a]
              /\ Len(history') = Len(history) + Cardinality(orphans)
              /\ SubSeq(history', 1, Len(history)) = history
              /\ \A a \in orphans :
                    \E i \in DOMAIN Appended :
                       Appended[i] = [callbacks[a] EXCEPT !.Status = "orphaned"]
              /\ UNCHANGED <<groups, groupHistory>>
              /\ last'.io = << >> /\ ~last'.fired]_vars

\* C11 witness: a validator that knows a2 alone was installed while a1 and a2
\* were pending; a2 is still pending and a1 is the newest history entry.
C11_Witness ==
    /\ last.op = "SetAgentValidator" /\ last.fn = << {"a2"} >>
    /\ "a2" \in DOMAIN callbacks /\ callbacks["a2"].Status = "pending"
    /\ "a1" \notin DOMAIN callbacks
    /\ Len(history) >= 1 /\ Last(history).AgentID = "a1"
    /\ Last(history).Status = "orphaned"

----------------------------------------------------------------------------
\* the ids of the callbacks the history has held, evicted since or not
RetiredIDs == {p[1] : p \in retired}

\* C12: in every state the pending map holds Pending callbacks only and the
\* callback history holds Completed, Failed and Orphaned callbacks only; a
\* callback has had one status only in all the time the history has held it;
\* and a callback the history has held, evicted since or not, is not pending.
C12_StatusStateMachine ==
    /\ \A a \in DOMAIN callbacks :
          callbacks[a].Status = "pending" /\ callbacks[a].ID \notin RetiredIDs
    /\ \A i \in DOMAIN history :
          /\ history[i].Status \in {"completed", "failed", "orphaned"}
          /\ << history[i].ID, history[i].Status >> \in retired
    /\ Cardinality(RetiredIDs) = Cardinality(retired)

\* C12 witness: a dispatch failed and retired a callback registered in this
\* run, evicting the oldest entry of a full history; the agent has no pending
\* callback.
C12_Witness ==
    /\ last.op = "OnAgentComplete" /\ last.fired
    /\ Len(history) = HistoryCap /\ Last(history).ID = last.id
    /\ Last(history).Status = "failed" /\ last.id \in RetiredIDs
    /\ last.agent \notin DOMAIN callbacks
    /\ \E id \in RetiredIDs : \A i \in DOMAIN history : history[i].ID # id

----------------------------------------------------------------------------
\* the events of one kind among the outbound I/O of an operation
Events(io, kind) == {i \in DOMAIN io : io[i].kind = kind}
\* the answer of the one event of a kind
AnswerOf(io, kind) == io[CHOOSE i \in Events(io, kind) : TRUE].answer

\* C13: the dispatch of a single callback, registered with the clients its
\* method needs, places exactly one call and sends exactly one email for the
\* method both, each whatever the other answers; the callback ends Completed
\* with an empty error when both succeed, and otherwise Failed with the call
\* error alone, the email error alone, or "call: <call error>; email: <email
\* error>" when both fail.  For the method call only the one call goes out and
\* for email only the one email, and the callback ends Completed or Failed
\* with that one answer.
C13_BothDispatch ==
    (last.op = "OnAgentComplete" /\ last.fired /\ last.gid = 0) =>
        LET cb == Last(history)
            calls == Events(last.io, "call")
            emails == Events(last.io, "email")
            expected(ce, ee) ==
                IF ce = "" /\ ee = "" THEN << "completed", "" >>
                ELSE IF ee = "" THEN << "failed", ce >>
                ELSE IF ce = "" THEN << "failed", ee >>
                ELSE << "failed", "call: " \o ce \o "; email: " \o ee >>
        IN  /\ cb.ID = last.id /\ cb.GroupID = 0
            /\ cb.Method = "both" =>
                  /\ Cardinality(calls) = 1 /\ Cardinality(emails) = 1
                  /\ Len(last.io) = 2
                  /\ << cb.Status, cb.Error >> =
                        expected(AnswerOf(last.io, "call"), AnswerOf(last.io, "email"))
            /\ cb.Method = "call" =>
                  /\ Cardinality(calls) = 1 /\ Len(last.io) = 1
                  /\ << cb.Status, cb.Error >> = expected(AnswerOf(last.io, "call"), "")
            /\ cb.Method = "email" =>
                  /\ Cardinality(emails) = 1 /\ Len(last.io) = 1
                  /\ << cb.Status, cb.Error >> = expected("", AnswerOf(last.io, "email"))

\* C13 witnesses: with the method both, the call and the email both failed;
\* the call failed and the email went out all the same; both succeeded.
C13_Witness ==
    /\ last.op = "OnAgentComplete" /\ last.fired /\ last.gid = 0
    /\ Last(history).Method = "both" /\ Last(history).Status = "failed"
    /\ Last(history).Error = "call: vapi: status 500; email: smtp: timeout"
    /\ Len(last.io) = 2

C13_WitnessCallFailed ==
    /\ last.op = "OnAgentComplete" /\ last.fired /\ last.gid = 0
    /\ Last(history).Method = "both" /\ Last(history).Error = "vapi: status 500"
    /\ Events(last.io, "email") # {} /\ AnswerOf(last.io, "email") = ""

C13_WitnessCompleted ==
    /\ last.op = "OnAgentComplete" /\ last.fired /\ last.gid = 0
    /\ Last(history).Method = "both" /\ Last(history).Status = "completed"
    /\ Last(history).Error = "" /\ Len(last.io) = 2

----------------------------------------------------------------------------
\* C14: the OnAgentComplete that dispatches a group takes the group out of the
\* pending groups and appends it, Completed or Failed, to the group history;
\* every callback that was pending with the group's id is pending no longer
\* and was appended to the callback history with the group's final status and
\* completion time, otherwise unchanged; and in every state no pending
\* callback carries the id of a group that has been dispatched.
C14_GroupDispatchRetiresMembers ==
    [][/\ (last'.op = "OnAgentComplete" /\ last'.fired /\ last'.gid # 0) =>
             LET gid == last'.gid
                 g == Last(groupHistory')
             IN  /\ gid \in DOMAIN groups /\ gid \notin DOMAIN groups'
                 /\ groupHistory' = Append(groupHistory, g)
                 /\ g.ID = gid
                 /\ g.Status \in {"completed", "failed"}
                 /\ SubSeq(history', 1, Len(history)) = history
                 /\ \A a \in DOMAIN callbacks :
                       callbacks[a].GroupID = gid =>
                          /\ a \notin DOMAIN callbacks'
                          /\ \E i \in DOMAIN Appended :
                                Appended[i] = [callbacks[a] EXCEPT
                                                  !.Status = g.Status,
                                                  !.CompletedAt = g.CompletedAt]
       /\ \A a \in DOMAIN callbacks' : \A i \in DOMAIN groupHistory' :
             callbacks'[a].GroupID # groupHistory'[i].ID]_vars

\* C14 witnesses: a group of three was dispatched with its three members
\* pending, and the history ends with the three, Failed like the group; a
\* group was dispatched after one of its members had been cancelled.
C14_Witness ==
    /\ last.op = "OnAgentComplete" /\ last.fired /\ last.gid # 0
    /\ Last(groupHistory).ID = last.gid /\ Last(groupHistory).Status = "failed"
    /\ Len(history) = 3
    /\ \A i \in DOMAIN history :
          history[i].GroupID = last.gid /\ history[i].Status = "failed"
    /\ callbacks = EmptyMap /\ groups = EmptyMap

C14_WitnessMemberCancelled ==
    /\ last.op = "OnAgentComplete" /\ last.fired /\ last.gid # 0
    /\ \E id \in cancelled : id[2] = last.gid
    /\ Len(history) = 2 /\ Last(groupHistory).Status = "completed"

----------------------------------------------------------------------------
NotImplemented == "batch calls not yet implemented"
\* the error texts that carry the not-implemented error of the batch call
CarriesNotImplemented(err) ==
    \/ err = NotImplemented
    \/ \E ee \in EmailErrors \cup {"email client not configured"} :
          err = "call: " \o NotImplemented \o "; email: " \o ee

\* the group part of C15: the dispatch of a group whose method is call or both
\* places no call, ends the group Failed with the not-implemented error, and
\* with the method both asks the email client, when there is one, exactly once
\* for the batch email.
C15_GroupFailsNotImplemented ==
    (last.op = "OnAgentComplete" /\ last.fired /\ last.gid # 0
        /\ Last(groupHistory).Method \in {"call", "both"}) =>
        LET g == Last(groupHistory)
        IN  /\ g.ID = last.gid
            /\ Events(last.io, "call") = {}
            /\ g.Status = "failed" /\ CarriesNotImplemented(g.Error)
            /\ Cardinality(Events(last.io, "batchEmail")) =
                  IF g.Method = "both" /\ CanEmail THEN 1 ELSE 0

\* C15: batch call dispatch is unsupported: when a group whose method is call
\* or both reaches its barrier no call is placed, the group ends Failed with
\* the not-implemented error, every member the dispatch retires ends Failed
\* with the not-implemented error as well, and with the method both the batch
\* email is still attempted exactly once.
C15_BatchCallUnsupported ==
    /\ C15_GroupFailsNotImplemented
    /\ (last.op = "OnAgentComplete" /\ last.fired /\ last.gid # 0
           /\ Last(groupHistory).Method \in {"call", "both"}) =>
          \A i \in DOMAIN history :
             history[i].GroupID = last.gid =>
                /\ history[i].Status = "failed"
                /\ CarriesNotImplemented(history[i].Error)

----------------------------------------------------------------------------
\* the goroutines whose dispatch is waiting for the provider to answer
AwaitingProvider == {t \in Threads : threads[t].pc \in {"io", "groupio"}}

\* C16: the exclusive lock is not held while outbound call or email I/O is in
\* progress: a goroutine whose dispatch is waiting on the provider does not
\* hold r.mu, so that an OnAgentComplete, Register, Cancel or Get for another
\* agent can take the lock and complete.
C16_LockNotHeldDuringIO ==
    \A t \in AwaitingProvider : mu # t

----------------------------------------------------------------------------
\* the callbacks a goroutine has found pending for the agent it reports
Found(t) == threads[t].cb # << >>
InHistory(id) == \E i \in DOMAIN history : history[i].ID = id

\* C17: of a Cancel(a) and an OnAgentComplete(a) on a pending single callback
\* at most one takes effect, and one that has is never undone.  A callback
\* Cancel removed (Cancel returned true) has no history record and no
\* goroutine has found it or dispatched it; a callback a goroutine has found
\* is dispatched by that goroutine and recorded in history, Completed or
\* Failed, once the goroutine has left the dispatch, and never removed by
\* Cancel; a Cancel that found nothing returned false and left the agent
\* without pending callback; and a callback still pending has been neither
\* cancelled nor dispatched.
C17_CancelOrDispatch ==
    /\ \A id \in cancelled :
          /\ ~InHistory(id)
          /\ \A t \in Threads : Found(t) => threads[t].cb.ID # id
    /\ \A t \in Threads :
          /\ threads[t].fired => Found(t)
          /\ (Found(t) /\ threads[t].pc \in {"persist", "done"}) =>
                /\ threads[t].fired /\ threads[t].io # << >>
                /\ \E i \in DOMAIN history :
                      /\ history[i].ID = threads[t].cb.ID
                      /\ history[i].Status \in {"completed", "failed"}
    /\ last.op = "Cancel" =>
          /\ last.found <=> last.id \in cancelled
          /\ last.agent \notin DOMAIN callbacks
    /\ \A a \in DOMAIN callbacks :
          callbacks[a].ID \notin cancelled /\ ~InHistory(callbacks[a].ID)

\* C17 witnesses: Cancel(a1) returned true, and a goroutine that reported a1
\* complete found nothing, dispatched nothing and returned.  A goroutine
\* dispatched the callback of a1, and the last Cancel(a1) returned false.
C17_Witness ==
    /\ last.op = "Cancel" /\ last.found /\ last.id \in cancelled
    /\ history = << >>
    /\ \E t \in Threads :
          /\ threads[t].pc = "done" /\ threads[t].info.AgentID = "a1"
          /\ ~Found(t) /\ ~threads[t].fired /\ threads[t].io = << >>

C17_WitnessDispatched ==
    /\ last.op = "Cancel" /\ ~last.found /\ cancelled = {}
    /\ \E t \in Threads :
          /\ threads[t].pc = "done" /\ threads[t].fired
          /\ InHistory(threads[t].cb.ID)

----------------------------------------------------------------------------
\* C18: NewRegistry returns a registry whatever the state of the persisted
\* file, and when the file is absent, unreadable or not valid JSON the
\* registry has no pending callback, no pending group and empty histories.
C18_StartsEmpty ==
    (last.op = "NewRegistry" /\ file[1] # "json") => Cur = EmptyRegistry

\* C18 witnesses: the program was started over a file that a failed write had
\* left truncated, after a run that had retired callbacks; over an unreadable
\* file; over no file, after a run whose writes were all refused.
C18_Witness ==
    /\ last.op = "NewRegistry" /\ file = CorruptFile /\ disk = "full"
    /\ retired # {} /\ Cur = EmptyRegistry

C18_WitnessUnreadable ==
    /\ last.op = "NewRegistry" /\ file = UnreadableFile /\ Cur = EmptyRegistry

C18_WitnessAbsent ==
    /\ last.op = "NewRegistry" /\ file = NoFile /\ disk = "denied"
    /\ cancelled # {} /\ Cur = EmptyRegistry

----------------------------------------------------------------------------
CurNext == Reg(callbacks', groups', history', groupHistory')

\* C19: the result an operation returns and the pending callbacks, pending
\* groups and histories it leaves are those of its in-memory transformation of
\* the registry, whether its write of the record succeeds or fails: Register
\* and RegisterBatch return the error of their validation alone and store what
\* they register, OnAgentComplete records and dispatches, Cancel removes and
\* returns whether it found, cleanupOrphaned retires the unknown agents.
C19_WriteFailureIgnored ==
    [][/\ last'.op = "Register" =>
             LET err == RegisterError(last'.method, last'.phone, last'.email)
             IN  /\ last'.err = err
                 /\ CurNext = IF err # "" THEN Cur
                              ELSE registerCallback(Cur, last'.agent, last'.method,
                                                    last'.phone, last'.email, clock)
                 /\ err = "" => last'.id = callbacks'[last'.agent].ID
       /\ last'.op = "RegisterBatch" =>
             LET err == RegisterBatchError(last'.method, last'.phone, last'.email)
             IN  /\ last'.err = err
                 /\ CurNext = IF err # "" THEN Cur
                              ELSE registerBatch(Cur, last'.members, last'.method,
                                                 last'.phone, last'.email, clock)
       /\ last'.op = "OnAgentComplete" =>
             \E info \in Infos(last'.agent), ce \in CallErrors, ee \in EmailErrors :
                LET x == onAgentComplete(Cur, info, ce, ee, clock)
                IN  /\ CurNext = x.reg
                    /\ last'.io = x.io /\ last'.found = x.found /\ last'.fired = x.timed
       /\ last'.op = "Cancel" =>
             /\ CurNext = cancel(Cur, last'.agent).reg
             /\ last'.found = cancel(Cur, last'.agent).found
       /\ (last'.op = "SetAgentValidator" /\ last'.fn # << >>) =>
             \E order \in Orders(DOMAIN callbacks) :
                CurNext = cleanupOrphaned(Cur, last'.fn[1], order)]_vars

\* C19 witnesses: a Register succeeded and its callback is pending while the
\* file, never written, is still absent; a dispatch was recorded in history
\* while its write left the file truncated.
C19_Witness ==
    /\ disk = "denied" /\ file = NoFile
    /\ last.op = "Register" /\ last.err = ""
    /\ last.agent \in DOMAIN callbacks /\ callbacks[last.agent].ID = last.id

C19_WitnessDispatch ==
    /\ disk = "full" /\ file = CorruptFile
    /\ last.op = "OnAgentComplete" /\ last.fired /\ last.io # << >>
    /\ Len(history) >= 1 /\ Last(history).ID = last.id

----------------------------------------------------------------------------
\* the step is the completion of process pid, which has a channel descriptor
CompletesProcess(pid) ==
    last'.op = "OnProcessComplete" /\ last'.agent = pid /\ pid \in DOMAIN processChannels
\* the chat messages and the channel mails among the I/O of the step
Chats == Events(last'.io, "chat")
Mails == Events(last'.io, "mail")

\* C20 as claimed: on the completion of a process that has a channel
\* descriptor, a Chat channel gets exactly one chat message, sent to the
\* descriptor's channel id; a Voice channel with an email gets exactly one
\* email and no chat message; a Voice channel without email and the API
\* channel get nothing; and the descriptor is gone, so nothing is retried.
C20_Original ==
    [][\A pid \in Procs : CompletesProcess(pid) =>
          LET ch == processChannels[pid]
          IN  /\ pid \notin DOMAIN processChannels'
              /\ ch.Type = "slack" =>
                    /\ Cardinality(Chats) = 1 /\ Mails = {}
                    /\ \A i \in Chats : last'.io[i].to = ch.ChannelID
              /\ (ch.Type = "voice" /\ ch.Email # "") =>
                    /\ Cardinality(Mails) = 1 /\ Chats = {}
                    /\ \A i \in Mails : last'.io[i].to = ch.Email
              /\ (ch.Type = "voice" /\ ch.Email = "") => (Chats = {} /\ Mails = {})
              /\ ch.Type = "api" => (Chats = {} /\ Mails = {})]_vars

\* C20 amended: on the completion of a process that has a channel descriptor,
\* a Chat channel gets exactly one chat message, sent to the descriptor's
\* channel id, when a Slack client has been set, and nothing when none has; a
\* Voice channel with an email gets exactly one email, to that address, when
\* an SMTP host is configured, and nothing when none is, and never a chat
\* message; a Voice channel without email and the API channel get nothing; a
\* failed send is not repeated; the descriptor is removed, and the completion
\* of a process without descriptor sends no chat message and no channel mail.
C20_ChannelAck ==
    [][/\ \A pid \in Procs : CompletesProcess(pid) =>
             LET ch == processChannels[pid]
             IN  /\ pid \notin DOMAIN processChannels'
                 /\ ch.Type = "slack" =>
                       /\ Cardinality(Chats) = (IF slackClient THEN 1 ELSE 0)
                       /\ Mails = {}
                       /\ \A i \in Chats : last'.io[i].to = ch.ChannelID
                 /\ (ch.Type = "voice" /\ ch.Email # "") =>
                       /\ Cardinality(Mails) = (IF smtpHost THEN 1 ELSE 0)
                       /\ Chats = {}
                       /\ \A i \in Mails : last'.io[i].to = ch.Email
                 /\ (ch.Type = "voice" /\ ch.Email = "") => (Chats = {} /\ Mails = {})
                 /\ ch.Type = "api" => (Chats = {} /\ Mails = {})
       /\ \A pid \in Procs :
             (last'.op = "OnProcessComplete" /\ last'.agent = pid
                 /\ pid \notin DOMAIN processChannels) => (Chats = {} /\ Mails = {})]_vars

\* C20 witnesses: the completion of a process sent one chat message to C1,
\* which Slack refused; it sent one mail for a voice call, beside the mail of
\* a scheduled callback; it found a channel and sent nothing, no Slack client
\* being set and no SMTP host configured.
C20_Witness ==
    /\ last.op = "OnProcessComplete" /\ last.found
    /\ Len(last.io) = 1 /\ last.io[1].kind = "chat" /\ last.io[1].to = "C1"
    /\ last.io[1].answer # ""
    /\ last.agent \notin DOMAIN processChannels

C20_WitnessVoice ==
    /\ last.op = "OnProcessComplete" /\ last.found
    /\ Len(last.io) = 2 /\ last.io[1].kind = "callbackMail"
    /\ last.io[2].kind = "mail" /\ last.io[2].to = Email

C20_WitnessNothingSent ==
    /\ last.op = "OnProcessComplete" /\ last.found /\ last.io = << >>
    /\ ~slackClient /\ ~smtpHost

----------------------------------------------------------------------------
\* the acknowledgements (chat messages and channel mails) goroutine t has sent
Acks(t) == Events(threads[t].io, "chat") \cup Events(threads[t].io, "mail")
\* the number of acknowledgements sent by the goroutines of T
RECURSIVE AckCount(_)
AckCount(T) ==
    IF T = {} THEN 0
    ELSE LET t == CHOOSE x \in T : TRUE
         IN  Cardinality(Acks(t)) + AckCount(T \ {t})
Returned(t) == threads[t].pc = "done"

\* C21: the acknowledgement of a spawned process is sent exactly once: at most
\* one acknowledgement has been sent for p1 over all completion events, also
\* concurrent ones; once a handler has returned, the channel map has no entry
\* for p1; and the registry is as it was.
C21_AcknowledgedOnce ==
    /\ AckCount(Threads) <= 1
    /\ (\E t \in Threads : Returned(t)) => "p1" \notin DOMAIN processChannels
    /\ Cur = EmptyRegistry /\ mu = 0

\* C21, the part that holds: once a handler has returned the channel map has
\* no entry for p1, a handler that found no entry has sent no
\* acknowledgement, and no handler touches the registry.
C21_DescriptorRemoved ==
    /\ (\E t \in Threads : Returned(t)) => "p1" \notin DOMAIN processChannels
    /\ \A t \in Threads : (Returned(t) /\ ~threads[t].fired) => Acks(t) = {}
    /\ Cur = EmptyRegistry /\ mu = 0

----------------------------------------------------------------------------
\* C22: OnAgentComplete for an agent id that has no Pending callback (never
\* registered, cancelled, or already retired) is a no-op: it dispatches no
\* call and no email and leaves pending callbacks, pending groups, callback
\* history and group history unchanged (and the file and the clock with them).
C22_NoPendingNoOp ==
    [][\A a \in Agents :
          (CompletesAgent(a) /\ a \notin DOMAIN callbacks)
             => /\ last'.io = << >> /\ ~last'.fired /\ ~last'.found
                /\ UNCHANGED <<callbacks, groups, history, groupHistory, file, clock>>]_vars

\* C22 witnesses: a completion event found nothing for a member that had been
\* cancelled out of a group still pending; for an agent never registered; for
\* an agent whose callback had failed and was in the history.
C22_Witness ==
    /\ last.op = "OnAgentComplete" /\ ~last.found /\ last.io = << >>
    /\ \E id \in cancelled : id[1] = last.agent /\ id[2] \in DOMAIN groups

C22_WitnessNeverRegistered ==
    /\ last.op = "OnAgentComplete" /\ ~last.found
    /\ cancelled = {} /\ history = << >> /\ callbacks = EmptyMap

C22_WitnessRetired ==
    /\ last.op = "OnAgentComplete" /\ ~last.found /\ last.agent \notin DOMAIN callbacks
    /\ \E i \in DOMAIN history :
          history[i].AgentID = last.agent /\ history[i].Status = "failed"

----------------------------------------------------------------------------
\* the log line of the call dispatch, and what is left of it without the stars
LoggedPhone == last.io[1]
Unstarred(line) == SelectSeq(line, LAMBDA c : c # "*")

\* C23: for every customer phone number, the phone string that call dispatch
\* writes to the log keeps the first 3 and the last 4 characters of the number
\* and shows a star for everything between them, so that the line is not the
\* number and the number cannot be read off it.
C23_PhoneMasked ==
    last.op = "executeCall" =>
        /\ LoggedPhone # last.phone
        /\ Unstarred(LoggedPhone) # last.phone
        /\ \A i \in DOMAIN LoggedPhone :
              LoggedPhone[i] # "*" => (i <= 3 \/ i > Len(LoggedPhone) - 4)

\* C23, the part that holds: a number of more than 7 characters is logged as
\* its first 3 characters, three stars and its last 4 characters.
C23_LongNumbersMasked ==
    (last.op = "executeCall" /\ Len(last.phone) > 7) =>
        /\ Len(LoggedPhone) = 10
        /\ LoggedPhone # last.phone /\ Unstarred(LoggedPhone) # last.phone
        /\ \A i \in 1..3 : LoggedPhone[i] = last.phone[i]
        /\ \A i \in 4..6 : LoggedPhone[i] = "*"
        /\ \A i \in 1..4 : LoggedPhone[6 + i] = last.phone[Len(last.phone) - 4 + i]

----------------------------------------------------------------------------
\* the group whose link was resolved, its members that have a project, in
\* member order, and the link
LinkGroup == groups[last.gid]
MembersWithProject ==
    SelectSeq(LinkGroup.AgentIDs, LAMBDA a : LinkGroup.Results[a].ProjectName # "")
ViewLink == last.io[1]

\* C24: the view link of the batch email is that of the project of the first
\* member, in the order of the group's member list, whose completion info has
\* a project name (so the same group always gets the same link); there is no
\* link when no member has a project or no URL lookup is installed.
C24_LinkOfFirstMember ==
    last.op = "executeBatchEmail" =>
        IF last.fn = << TRUE >> /\ MembersWithProject # << >>
        THEN ViewLink = ServerURL(LinkGroup.Results[MembersWithProject[1]].ProjectName)
        ELSE ViewLink = ""

\* C24, the part that holds: there is no link when no member has a project or
\* no URL lookup is installed, and otherwise the link is that of the project
\* of one of the members that have one.
C24_LinkOfSomeMember ==
    last.op = "executeBatchEmail" =>
        IF last.fn = << TRUE >> /\ MembersWithProject # << >>
        THEN \E a \in Range(MembersWithProject) :
                ViewLink = ServerURL(LinkGroup.Results[a].ProjectName)
        ELSE ViewLink = ""

----------------------------------------------------------------------------
\* the subject built, and the framed subject as a text
Subject == last.io[1]
Framed == AgentName \o (IF last.err = "" THEN Completed ELSE Failed) \o last.members
\* the subject reads "<agent name> completed: ..."
FramedCompleted ==
    /\ Len(Subject) >= Len(AgentName) + Len(Completed)
    /\ SubSeq(Subject, Len(AgentName) + 1, Len(AgentName) + Len(Completed)) = Completed

\* C25: the subject of the single-callback email never exceeds 50 characters:
\* a framed subject of at most 50 characters is used unchanged and a longer
\* one is cut to its first 47 characters followed by a three-character
\* ellipsis; the framing is "completed" iff the completion info carries no
\* error text.
C25_SubjectCut ==
    last.op = "buildSubject" =>
        /\ Characters(Subject) <= SubjectCap
        /\ Subject = IF Len(Framed) <= SubjectCap THEN Bytes(Framed)
                     ELSE Bytes(SubSeq(Framed, 1, SubjectCut)) \o Ellipsis
        /\ FramedCompleted <=> last.err = ""

\* C25, the part that holds: the subject never exceeds 50 bytes, and so never
\* 50 characters; a framed subject of at most 50 bytes is used unchanged and
\* a longer one is cut to its first 47 bytes followed by three dots; the
\* framing is "completed" iff the completion info carries no error text.
C25_SubjectCutBytes ==
    last.op = "buildSubject" =>
        /\ Len(Subject) <= SubjectCap /\ Characters(Subject) <= SubjectCap
        /\ Subject = IF Len(Bytes(Framed)) <= SubjectCap THEN Bytes(Framed)
                     ELSE SubSeq(Bytes(Framed), 1, SubjectCut) \o Ellipsis
        /\ FramedCompleted <=> last.err = ""

----------------------------------------------------------------------------
\* the step is an OnAgentComplete that dispatched group g
DispatchesGroup(g) ==
    /\ last'.op = "OnAgentComplete" /\ last'.fired /\ last'.gid = g
    /\ g \in DOMAIN groups /\ g \notin DOMAIN groups'

\* C26: group dispatch retires only callbacks that belong to the dispatched
\* group: a Pending callback whose group id differs from the group's (one
\* registered for a member agent id after the batch) is still pending after
\* the dispatch, as it was, and has not been moved to the history.
C26_ForeignCallbackKept ==
    [][\A g \in DOMAIN groups : \A a \in DOMAIN callbacks :
          (DispatchesGroup(g) /\ callbacks[a].GroupID # g)
             => /\ a \in DOMAIN callbacks' /\ callbacks'[a] = callbacks[a]
                /\ \A i \in DOMAIN history' : history'[i].ID # callbacks[a].ID]_vars

\* C26, the part that holds: the dispatch of a group retires no pending
\* callback of an agent that is not in the group's member list.
C26_NonMemberKept ==
    [][\A g \in DOMAIN groups : \A a \in DOMAIN callbacks :
          (DispatchesGroup(g) /\ a \notin Range(groups[g].AgentIDs))
             => a \in DOMAIN callbacks' /\ callbacks'[a] = callbacks[a]]_vars

----------------------------------------------------------------------------
\* C27: no group is left pending forever: a group that RegisterBatch has
\* created is eventually dispatched and removed from the pending groups when
\* OnAgentComplete goes on being invoked for every member, whatever Cancel
\* calls are interleaved and whatever the member list is.
C27_GroupEventuallyDispatched ==
    \A g \in 1..MaxClock : (g \in DOMAIN groups) ~> (g \notin DOMAIN groups)

\* C27, the part that holds: a group of distinct members is eventually
\* dispatched unless one of its members is cancelled.
C27_UncancelledGroupDispatched ==
    \A g \in 1..MaxClock :
       (g \in DOMAIN groups /\ groups[g].AgentIDs # << >> /\ Distinct(groups[g].AgentIDs))
          ~> (g \notin DOMAIN groups \/ \E id \in cancelled : id[2] = g)

----------------------------------------------------------------------------
\* the callback or the group that the last OnAgentComplete dispatched
Dispatched == IF last.gid = 0 THEN Last(history) ELSE Last(groupHistory)
\* a call or an email of the last operation went out and succeeded
Notified == \E i \in DOMAIN last.io : last.io[i].answer = ""

\* C28: a callback or a group reaches the status Completed only if at least
\* one notification, a call or an email, was attempted for it and succeeded,
\* whatever method string it was registered with.
C28_CompletedMeansNotified ==
    (last.op = "OnAgentComplete" /\ last.fired /\ Dispatched.Status = "completed")
        => Notified

\* C28, the part that holds: with the method call, email or both, a callback
\* or a group that ends Completed was notified, every attempt made having
\* succeeded.
C28_KnownMethodNotified ==
    (last.op = "OnAgentComplete" /\ last.fired /\ Dispatched.Status = "completed"
        /\ Dispatched.Method \in {"call", "email", "both"})
        => /\ Notified
           /\ \A i \in DOMAIN last.io : last.io[i].answer = ""

----------------------------------------------------------------------------
\* C29: in every reachable state of a registry that started empty, the keys of
\* the completion map of each pending group are among the group's member
\* agent ids, and every pending callback with a group id refers to a group
\* that is pending and lists the callback's agent id among its members.
C29_GroupReferences ==
    /\ \A g \in DOMAIN groups : DOMAIN groups[g].Results \subseteq Range(groups[g].AgentIDs)
    /\ \A a \in DOMAIN callbacks :
          callbacks[a].GroupID # 0 =>
             /\ callbacks[a].GroupID \in DOMAIN groups
             /\ a \in Range(groups[callbacks[a].GroupID].AgentIDs)

\* C29 witness: two groups are pending, the older one has lost its callbacks
\* to the newer one, which has a result recorded.
C29_Witness ==
    /\ Cardinality(DOMAIN groups) = 2
    /\ \E g \in DOMAIN groups : DOMAIN groups[g].Results # {}
    /\ \E g \in DOMAIN groups : \A a \in DOMAIN callbacks : callbacks[a].GroupID # g
    /\ \E a \in DOMAIN callbacks : callbacks[a].GroupID # 0

----------------------------------------------------------------------------
\* the step is the clean-up of the exit monitor of server proc
MonitorStep(proc) ==
    /\ proc \in DOMAIN servers /\ servers[proc].monitored /\ ~servers'[proc].monitored
\* server proc was stopped by StopServer and another server has been started
\* for its project since
Superseded(proc) ==
    /\ servers[proc].killed
    /\ servers[proc].ProjectName \in DOMAIN processes
    /\ processes[servers[proc].ProjectName] # proc

\* C30: the exit monitor of a server process affects only that process: when,
\* after StopServer(p) and a new StartServer(p), the monitor of the stopped
\* process runs late, it neither removes the new process from the process map
\* nor releases the new process's subdomain allocation.
C30_MonitorOwnProcessOnly ==
    [][\A proc \in DOMAIN servers :
          (MonitorStep(proc) /\ Superseded(proc))
             => /\ processes' = processes
                /\ allocations' = allocations]_vars

\* C30, the part that holds: the monitor of a server leaves the servers and
\* the allocations of every other project alone.
C30_MonitorOwnProjectOnly ==
    [][\A proc \in DOMAIN servers : \A n \in ProjectNames :
          (MonitorStep(proc) /\ n # servers[proc].ProjectName)
             => /\ (n \in DOMAIN processes) = (n \in DOMAIN processes')
                /\ n \in DOMAIN processes => processes'[n] = processes[n]
                /\ (n \in DOMAIN allocations) = (n \in DOMAIN allocations')
                /\ n \in DOMAIN allocations => allocations'[n] = allocations[n]]_vars

====
